---- MODULE Spec2Model ----
(***************************************************************************)
(* Model of mouseless (src/src/main.rs): the global event tap callback     *)
(* (global_event_listener_thread) running concurrently with the render     *)
(* loop (MouselessApp::update), the three shared atomics, the mpsc channel *)
(* between them, and the grid layout functions.                            *)
(*                                                                         *)
(* Option<T> is a sequence of length <= 1: <<>> is None, <<v>> is Some(v). *)
(* A String is a sequence of one-character strings.  A Pos2/Vec2 is a pair *)
(* <<x, y>>, an egui::Rect is [min |-> Pos2, max |-> Pos2].  Durations are  *)
(* integers in milliseconds; a stored Instant is kept as the time elapsed  *)
(* since it was taken, which is all the program ever asks of it.           *)
(* Coordinates are f32 in the program and integers here; the screen and    *)
(* cell sizes of Spec and SpecKeys divide exactly by the grid dimensions.   *)
(***************************************************************************)
EXTENDS Integers, Sequences, FiniteSets, TLC

\* ------------------------------------------------------------------ bounds
\* time passes in steps of TimeStep ms; the age of a stored Instant is
\* followed up to MaxTime ms, which lies beyond every threshold of the program
TimeStep == 50
MaxTime == 200
\* unconsumed messages the channel may hold before the model stops sending
MaxChan == 2
\* key events egui delivers to one update call
MaxEvents == 2
\* how many keys of KeyOrder the user types in the concurrent specification
NumKeys == 1
\* largest column / row count tried on the layout functions
MaxCols == 13
MaxRows == 13
\* clicks scheduled in the specification that counts them
MaxClicks == 2

\* ------------------------------------------------------- program constants
RCMD_TAP_DURATION_MS == 200
CLICK_DELAY_MS == 150
\* the delays of request_repaint_after: while the click waits, while hidden
CLICK_POLL_MS == 20
HIDDEN_POLL_MS == 50
RIGHT_COMMAND_KEY_CODE == 54
LEFT_SHIFT_KEY_CODE == 56
ESCAPE_KEY_CODE == 53
MAIN_GRID_COLS == 12
MAIN_GRID_ROWS == 12
SUB_GRID_COLS == 5
SUB_GRID_ROWS == 5

Min(a, b) == IF a < b THEN a ELSE b

None == <<>>
Some(v) == <<v>>
is_some(o) == o # <<>>
is_none(o) == o = <<>>
unwrap(o) == o[1]

\* ------------------------------------------------------------ egui geometry
pos2(x, y) == <<x, y>>
vec2(x, y) == <<x, y>>
add2(p, v) == <<p[1] + v[1], p[2] + v[2]>>
from_min_size(min, size) == [min |-> min, max |-> add2(min, size)]
width(rect) == rect.max[1] - rect.min[1]
height(rect) == rect.max[2] - rect.min[2]
center(rect) == <<(rect.min[1] + rect.max[1]) \div 2, (rect.min[2] + rect.max[2]) \div 2>>
\* egui::Rect::NOTHING: min above max, equal to no content rectangle
NOTHING == [min |-> <<1, 1>>, max |-> <<-1, -1>>]

\* ------------------------------------------------------------- grid layout
first_chars == <<"A","S","D","F","G","H","J","K","L","Q","W","E","R","T","Y","U","I","O","P","Z","X","C","V","B","N","M">>
second_chars == <<"H","J","K","L","Q","W","E","R","T","Y","A","S","D","F","G","U","I","O","P","Z","X","C","V","B","N","M">>
sub_grid_chars == <<"A","B","C","D","E","F","G","H","I","J","K","L","M","N","O","P","Q","R","S","T","U","V","W","X","Y","Z">>

\* (65 + n) as u8 as char, for n in 0..25
AsciiUpper(n) == sub_grid_chars[n + 1]

\* A Vec the layout functions return is kept as the call that built it:
\* [kind, rect, num_cols, num_rows].  VecLen and VecAt (0-based) read it as
\* the vector the loops of the function push; ToSeq writes it out in full.
EmptyVec == [kind |-> "empty", rect |-> NOTHING, num_cols |-> 0, num_rows |-> 0]

\* the label pushed for cell (r, c) by the loop of generate_main_grid_layout
MainLabelAt(r, c, num_cols) ==
    LET idx == r * num_cols + c IN
    IF idx < Len(first_chars) /\ idx < Len(second_chars)
    THEN <<first_chars[(r % Len(first_chars)) + 1], second_chars[(c % Len(second_chars)) + 1]>>
    ELSE <<AsciiUpper(idx % 26), AsciiUpper((idx \div 26) % 26)>>

\* CellRectAt with the row and the column exchanged (column-major order)
CellRectAtColumnMajor(rect, r, c, num_cols, num_rows) ==
    LET cell_width == width(rect) \div num_cols
        cell_height == height(rect) \div num_rows
    IN from_min_size(add2(rect.min, vec2(r * cell_width, c * cell_height)),
                     vec2(cell_width, cell_height))

\* the rectangle pushed for cell (r, c) by the rectangle loop of both functions
CellRectAt(rect, r, c, num_cols, num_rows) ==
    LET cell_width == width(rect) \div num_cols
        cell_height == height(rect) \div num_rows
    IN from_min_size(add2(rect.min, vec2(c * cell_width, r * cell_height)),
                     vec2(cell_width, cell_height))

VecLen(v) ==
    IF v.kind = "empty" THEN 0
    ELSE IF v.kind = "sub_labels" THEN Min(v.num_cols * v.num_rows, Len(sub_grid_chars))
    ELSE v.num_rows * v.num_cols

\* the labels of the configured 12x12 grid, written out once
ConfiguredMainLabels ==
    [k \in 0..(MAIN_GRID_ROWS * MAIN_GRID_COLS - 1) |->
        MainLabelAt(k \div MAIN_GRID_COLS, k % MAIN_GRID_COLS, MAIN_GRID_COLS)]

VecAt(v, i) ==
    IF v.kind = "main_labels"
    THEN IF v.num_cols = MAIN_GRID_COLS /\ v.num_rows = MAIN_GRID_ROWS
         THEN ConfiguredMainLabels[i]
         ELSE MainLabelAt(i \div v.num_cols, i % v.num_cols, v.num_cols)
    ELSE IF v.kind = "sub_labels" THEN <<sub_grid_chars[i + 1]>>
    ELSE CellRectAt(v.rect, i \div v.num_cols, i % v.num_cols, v.num_cols, v.num_rows)

ToSeq(v) == [k \in 1..VecLen(v) |-> VecAt(v, k - 1)]

\* CellRects that builds cells when either side exceeds 1
CellRectsEitherSide(rect, num_cols, num_rows) ==
    IF width(rect) > 1 \/ height(rect) > 1
    THEN [kind |-> "rects", rect |-> rect, num_cols |-> num_cols, num_rows |-> num_rows]
    ELSE EmptyVec

\* the rectangles both layout functions build: none unless the rectangle is
\* wider and higher than 1, else num_rows * num_cols cells in row-major order
CellRects(rect, num_cols, num_rows) ==
    IF width(rect) > 1 /\ height(rect) > 1
    THEN [kind |-> "rects", rect |-> rect, num_cols |-> num_cols, num_rows |-> num_rows]
    ELSE EmptyVec

generate_main_grid_layout(num_cols, num_rows, screen_rect) ==
    [labels |-> [kind |-> "main_labels", rect |-> NOTHING, num_cols |-> num_cols, num_rows |-> num_rows],
     rects |-> CellRects(screen_rect, num_cols, num_rows)]

generate_sub_grid_layout(main_cell_rect, num_cols, num_rows) ==
    [labels |-> [kind |-> "sub_labels", rect |-> NOTHING, num_cols |-> num_cols, num_rows |-> num_rows],
     rects |-> CellRects(main_cell_rect, num_cols, num_rows)]

\* iter().position(|x| x = value): Some(index of the first match) or None
Scan(v, value) ==
    LET matches == {i \in 0..(VecLen(v) - 1) : VecAt(v, i) = value} IN
    IF matches # {}
    THEN Some(CHOOSE i \in matches : \A j \in matches : i <= j)
    ELSE None

\* the scan of the configured 12x12 labels, written out once for each label
ConfiguredMainPositions ==
    [label \in {ConfiguredMainLabels[k] : k \in DOMAIN ConfiguredMainLabels} |->
        Scan([kind |-> "main_labels", rect |-> NOTHING,
              num_cols |-> MAIN_GRID_COLS, num_rows |-> MAIN_GRID_ROWS], label)]

PositionIn(v, value) ==
    IF v.kind = "main_labels" /\ v.num_cols = MAIN_GRID_COLS /\ v.num_rows = MAIN_GRID_ROWS
    THEN IF value \in DOMAIN ConfiguredMainPositions
         THEN ConfiguredMainPositions[value] ELSE None
    ELSE Scan(v, value)

\* PositionIn with both arguments evaluated once, before the scan
Position(v, value) ==
    CHOOSE p \in {PositionIn(vec, val) : vec \in {v}, val \in {value}} : TRUE

\* key_to_char: the letter keys map to their upper-case letter, others to None
Letters == {sub_grid_chars[i] : i \in 1..Len(sub_grid_chars)}
key_to_char(key) == IF key \in Letters THEN Some(key) ELSE None

\* is_modifier_key_code
is_modifier_key_code(key_code) == key_code \in {54, 55, 56, 57, 58, 59, 60, 61, 62, 63}

\* ------------------------------------------------------------------- state
VARIABLES
    \* shared atomics (EframeControl, lshift_key_is_pressed_arc)
    is_visible, hide_requested, lshift_key_is_pressed,
    \* the mpsc channel of GlobalEvent, oldest message first
    event_chan,
    \* global_event_listener_thread: the Cell rcmd_press_time, the position of
    \* the callback, and what the last callback returned to the system
    rcmd_press_time, dpc, tap_result,
    \* MouselessApp fields
    display_mode, key_input_buffer, selected_main_cell_index,
    main_grid_labels, main_grid_rects, sub_grid_labels, sub_grid_rects,
    last_layout_screen_rect, is_hiding_to_perform_click, hide_initiated_at,
    pending_click_pos_after_hide,
    \* position of the render thread inside update
    npc,
    \* the OS: pointer position, synthetic events posted by the current update
    mouse_pos, posted,
    \* the overlay window: whether it ignores mouse events, the calls the
    \* click block of the current update made on the window and the event
    \* system, in order, and the delays of the repaints the current update
    \* requested (0 for request_repaint)
    ignores_mouse_events, click_calls, repaint_requests,
    \* what a specification records besides the program's state: the
    \* arguments drawn for the layout functions (SpecGrid), the modifier
    \* state read when a click was scheduled (SpecSnap)
    args

shared == <<is_visible, hide_requested, lshift_key_is_pressed, event_chan>>
detector == <<rcmd_press_time, dpc, tap_result>>
nav == <<display_mode, key_input_buffer, selected_main_cell_index,
         main_grid_labels, main_grid_rects, sub_grid_labels, sub_grid_rects,
         last_layout_screen_rect, is_hiding_to_perform_click, hide_initiated_at,
         pending_click_pos_after_hide>>
os == <<mouse_pos, posted>>
window == <<ignores_mouse_events, click_calls, repaint_requests>>
vars == <<shared, detector, nav, npc, os, window, args>>

\* main() and MouselessApp::new: both flags false, empty channel, the labels
\* of the 12x12 grid computed once, no rectangles, nothing pending
Init ==
    /\ is_visible = FALSE
    /\ hide_requested = FALSE
    /\ lshift_key_is_pressed = FALSE
    /\ event_chan = <<>>
    /\ rcmd_press_time = None
    /\ dpc = "wait"
    /\ tap_result = "no event"
    /\ display_mode = "MainGrid"
    /\ key_input_buffer = <<>>
    /\ selected_main_cell_index = None
    /\ main_grid_labels = generate_main_grid_layout(MAIN_GRID_COLS, MAIN_GRID_ROWS,
                              from_min_size(pos2(0, 0), vec2(100, 100))).labels
    /\ main_grid_rects = EmptyVec
    /\ sub_grid_labels = EmptyVec
    /\ sub_grid_rects = EmptyVec
    /\ last_layout_screen_rect = NOTHING
    /\ is_hiding_to_perform_click = FALSE
    /\ hide_initiated_at = None
    /\ pending_click_pos_after_hide = None
    /\ npc = "recv"
    /\ mouse_pos = pos2(0, 0)
    /\ posted = <<>>
    /\ ignores_mouse_events = FALSE
    /\ click_calls = <<>>
    /\ repaint_requests = {}
    /\ args = <<>>

\* ------------------------------------------------------- gesture detector
\* the events the tap is registered for: KeyDown, KeyUp, FlagsChanged, with
\* the key code and the command / shift bits of the flags
TapEvents ==
    [type : {"FlagsChanged"}, key_code : {RIGHT_COMMAND_KEY_CODE}, cmd : BOOLEAN, shift : {FALSE}]
    \cup [type : {"FlagsChanged"}, key_code : {LEFT_SHIFT_KEY_CODE}, cmd : {FALSE}, shift : BOOLEAN]
    \cup [type : {"FlagsChanged"}, key_code : {55}, cmd : {TRUE}, shift : {FALSE}]
    \cup [type : {"KeyDown"}, key_code : {ESCAPE_KEY_CODE, 0, 55}, cmd : {FALSE}, shift : {FALSE}]
    \cup [type : {"KeyUp"}, key_code : {0}, cmd : {FALSE}, shift : {FALSE}]

\* Instant::now() and Instant::elapsed of a stored instant
Instant_now == 0
elapsed(instant) == instant
\* a stored instant after TimeStep more milliseconds
Aged(o) == IF is_none(o) THEN o ELSE Some(Min(unwrap(o) + TimeStep, MaxTime))

\* RcmdReleaseSends with the 100 ms tap window of the superseded listener
RcmdReleaseSendsShortTap ==
    /\ is_some(rcmd_press_time)
    /\ elapsed(unwrap(rcmd_press_time)) < 100
    /\ ~is_visible

\* RcmdReleaseSends without the test of the elapsed time
RcmdReleaseSendsAnyDuration ==
    /\ is_some(rcmd_press_time)
    /\ ~is_visible

\* the release edge of the hotkey
IsRcmdRelease(e) ==
    e.type = "FlagsChanged" /\ e.key_code = RIGHT_COMMAND_KEY_CODE /\ ~e.cmd

\* the release edge of the hotkey: a Show is sent when the press was recorded
\* less than RCMD_TAP_DURATION_MS ago and the overlay is not visible
RcmdReleaseSends ==
    /\ is_some(rcmd_press_time)
    /\ elapsed(unwrap(rcmd_press_time)) < RCMD_TAP_DURATION_MS
    /\ ~is_visible

\* the first test of the callback: Escape key-down seen while visible
\* EscapeWhileVisible that never takes the Escape branch
EscapeWhileVisibleNever(e) == FALSE

\* EscapeWhileVisible without the test of app_is_visible
EscapeWhileVisibleAlways(e) ==
    e.type = "KeyDown" /\ e.key_code = ESCAPE_KEY_CODE

EscapeWhileVisible(e) ==
    is_visible /\ e.type = "KeyDown" /\ e.key_code = ESCAPE_KEY_CODE

\* LeftShiftStore that follows the shift flag only while the overlay is hidden
LeftShiftStoreWhenHidden(e) ==
    IF is_visible THEN lshift_key_is_pressed ELSE e.shift

\* the left-shift branch: store true when the shift flag is set and the
\* stored value is false, store false when it is clear and the value is true
LeftShiftStore(e) ==
    IF e.shift
    THEN (IF ~lshift_key_is_pressed THEN TRUE ELSE lshift_key_is_pressed)
    ELSE (IF lshift_key_is_pressed THEN FALSE ELSE lshift_key_is_pressed)

\* callback_closure whose press survives the flag change of another modifier
callback_closure_keeps_press(e, cursor) ==
    /\ dpc = "wait"
    /\ IF EscapeWhileVisible(e)
       THEN /\ dpc' = "escape"
            /\ UNCHANGED <<rcmd_press_time, tap_result, lshift_key_is_pressed, event_chan>>
       ELSE /\ dpc' = "wait"
            /\ tap_result' = "Some(event)"
            /\ IF e.type = "FlagsChanged"
               THEN IF e.key_code = RIGHT_COMMAND_KEY_CODE
                    THEN IF e.cmd
                         THEN /\ rcmd_press_time' = IF is_none(rcmd_press_time) THEN Some(Instant_now) ELSE rcmd_press_time
                              /\ UNCHANGED <<lshift_key_is_pressed, event_chan>>
                         ELSE /\ rcmd_press_time' = None
                              /\ IF RcmdReleaseSends
                                 THEN /\ Len(event_chan) < MaxChan
                                      /\ event_chan' = Append(event_chan, [kind |-> "ShowGrid", cursor_pos |-> cursor])
                                 ELSE UNCHANGED event_chan
                              /\ UNCHANGED lshift_key_is_pressed
                    ELSE IF e.key_code = LEFT_SHIFT_KEY_CODE
                         THEN /\ lshift_key_is_pressed' = LeftShiftStore(e)
                              /\ UNCHANGED <<rcmd_press_time, event_chan>>
                         ELSE UNCHANGED <<rcmd_press_time, lshift_key_is_pressed, event_chan>>
               ELSE IF e.type = "KeyDown"
                    THEN /\ rcmd_press_time' =
                               IF is_some(rcmd_press_time) /\ ~is_modifier_key_code(e.key_code)
                                  /\ e.key_code # RIGHT_COMMAND_KEY_CODE
                               THEN None ELSE rcmd_press_time
                         /\ UNCHANGED <<lshift_key_is_pressed, event_chan>>
                    ELSE UNCHANGED <<rcmd_press_time, lshift_key_is_pressed, event_chan>>
    /\ UNCHANGED <<is_visible, hide_requested, nav, npc, os, window, args>>

\* one run of callback_closure on event e, up to its return, except that for
\* an Escape key-down seen while visible it stops between the load of
\* app_is_visible and the store to hide_requested (EscapeStore below).
\* cursor is the result of mouse.get_position().
callback_closure(e, cursor) ==
    /\ dpc = "wait"
    /\ IF EscapeWhileVisible(e)
       THEN /\ dpc' = "escape"
            /\ UNCHANGED <<rcmd_press_time, tap_result, lshift_key_is_pressed, event_chan>>
       ELSE /\ dpc' = "wait"
            /\ tap_result' = "Some(event)"
            /\ IF e.type = "FlagsChanged"
               THEN IF e.key_code = RIGHT_COMMAND_KEY_CODE
                    THEN IF e.cmd
                         THEN /\ rcmd_press_time' = IF is_none(rcmd_press_time) THEN Some(Instant_now) ELSE rcmd_press_time
                              /\ UNCHANGED <<lshift_key_is_pressed, event_chan>>
                         ELSE /\ rcmd_press_time' = None
                              /\ IF RcmdReleaseSends
                                 THEN /\ Len(event_chan) < MaxChan
                                      /\ event_chan' = Append(event_chan, [kind |-> "ShowGrid", cursor_pos |-> cursor])
                                 ELSE UNCHANGED event_chan
                              /\ UNCHANGED lshift_key_is_pressed
                    ELSE IF e.key_code = LEFT_SHIFT_KEY_CODE
                         THEN /\ lshift_key_is_pressed' = LeftShiftStore(e)
                              /\ UNCHANGED <<rcmd_press_time, event_chan>>
                         ELSE /\ rcmd_press_time' = None
                              /\ UNCHANGED <<lshift_key_is_pressed, event_chan>>
               ELSE IF e.type = "KeyDown"
                    THEN /\ rcmd_press_time' =
                               IF is_some(rcmd_press_time) /\ ~is_modifier_key_code(e.key_code)
                                  /\ e.key_code # RIGHT_COMMAND_KEY_CODE
                               THEN None ELSE rcmd_press_time
                         /\ UNCHANGED <<lshift_key_is_pressed, event_chan>>
                    ELSE UNCHANGED <<rcmd_press_time, lshift_key_is_pressed, event_chan>>
    /\ UNCHANGED <<is_visible, hide_requested, nav, npc, os, window, args>>

\* EscapeStore that hides the overlay itself by storing is_visible = false
EscapeStoreHidesDirectly ==
    /\ dpc = "escape"
    /\ is_visible' = FALSE
    /\ tap_result' = "None"
    /\ dpc' = "wait"
    /\ UNCHANGED <<hide_requested, lshift_key_is_pressed, event_chan, rcmd_press_time, nav, npc, os, window, args>>

\* the rest of the Escape branch: store hide_requested = true, return None
EscapeStore ==
    /\ dpc = "escape"
    /\ hide_requested' = TRUE
    /\ tap_result' = "None"
    /\ dpc' = "wait"
    /\ UNCHANGED <<is_visible, lshift_key_is_pressed, event_chan, rcmd_press_time, nav, npc, os, window, args>>

\* the pointer position query of a tap: Some(position) or None on failure
CursorResults == {Some(mouse_pos), None}

\* the tap delivers one event; the pointer is queried only on the path that
\* sends a Show
TapEvent ==
    \E e \in TapEvents :
        \E cursor \in (IF IsRcmdRelease(e) /\ RcmdReleaseSends THEN CursorResults ELSE {None}) :
            callback_closure(e, cursor)

\* ------------------------------------------------------- overlay navigator
\* ShowAccepted without the test of is_visible
ShowAcceptedAlways == TRUE

\* the guard of the ShowGrid branch: the overlay is not visible yet
ShowAccepted == ~is_visible

\* UpdateRecv that receives a ShowGrid without showing the overlay
UpdateRecvDropsShow ==
    /\ npc = "recv"
    /\ IF event_chan # <<>>
       THEN event_chan' = Tail(event_chan)
       ELSE UNCHANGED event_chan
    /\ npc' = "hide"
    /\ posted' = <<>>
    /\ click_calls' = <<>>
    /\ repaint_requests' = {}
    /\ UNCHANGED <<is_visible, hide_requested, lshift_key_is_pressed, detector, nav, mouse_pos,
                   ignores_mouse_events, args>>

\* UpdateRecv that drains the channel
UpdateRecvDrains ==
    /\ npc = "recv"
    /\ IF event_chan # <<>>
       THEN /\ event_chan' = <<>>
            /\ IF ShowAccepted
               THEN is_visible' = TRUE /\ npc' = "show"
               ELSE is_visible' = is_visible /\ npc' = "hide"
       ELSE /\ npc' = "hide"
            /\ UNCHANGED <<event_chan, is_visible>>
    /\ posted' = <<>>
    /\ click_calls' = <<>>
    /\ repaint_requests' = {}
    /\ UNCHANGED <<hide_requested, lshift_key_is_pressed, detector, nav, mouse_pos,
                   ignores_mouse_events, args>>

\* update, first part (nothing is posted yet by this call): try_recv; a ShowGrid received while the overlay is not
\* visible stores is_visible = true (the rest of the branch is UpdateShow)
UpdateRecv ==
    /\ npc = "recv"
    /\ IF event_chan # <<>>
       THEN /\ event_chan' = Tail(event_chan)
            /\ IF ShowAccepted
               THEN is_visible' = TRUE /\ npc' = "show"
               ELSE is_visible' = is_visible /\ npc' = "hide"
       ELSE /\ npc' = "hide"
            /\ UNCHANGED <<event_chan, is_visible>>
    /\ posted' = <<>>
    /\ click_calls' = <<>>
    /\ repaint_requests' = {}
    /\ UNCHANGED <<hide_requested, lshift_key_is_pressed, detector, nav, mouse_pos,
                   ignores_mouse_events, args>>

\* UpdateShow without main_grid_rects.clear()
UpdateShowKeepsRects ==
    /\ npc = "show"
    /\ hide_requested' = FALSE
    /\ key_input_buffer' = <<>>
    /\ selected_main_cell_index' = None
    /\ display_mode' = "MainGrid"
    /\ npc' = "hide"
    /\ UNCHANGED <<is_visible, lshift_key_is_pressed, event_chan, detector, main_grid_rects,
                   main_grid_labels, sub_grid_labels, sub_grid_rects, last_layout_screen_rect,
                   is_hiding_to_perform_click, hide_initiated_at, pending_click_pos_after_hide,
                   os, window, args>>

\* the rest of the ShowGrid branch: clear hide_requested, reset the selection
UpdateShow ==
    /\ npc = "show"
    /\ hide_requested' = FALSE
    /\ key_input_buffer' = <<>>
    /\ selected_main_cell_index' = None
    /\ display_mode' = "MainGrid"
    /\ main_grid_rects' = EmptyVec
    /\ npc' = "hide"
    /\ UNCHANGED <<is_visible, lshift_key_is_pressed, event_chan, detector,
                   main_grid_labels, sub_grid_labels, sub_grid_rects, last_layout_screen_rect,
                   is_hiding_to_perform_click, hide_initiated_at, pending_click_pos_after_hide,
                   os, window, args>>

\* HideOverlay leaving is_visible set
HideOverlayStaysVisible ==
    [is_visible |-> TRUE,
     hide_requested |-> FALSE,
     key_input_buffer |-> <<>>,
     selected |-> None,
     display_mode |-> "MainGrid",
     is_hiding |-> is_some(pending_click_pos_after_hide),
     hide_initiated_at |-> IF is_some(pending_click_pos_after_hide)
                           THEN Some(Instant_now) ELSE hide_initiated_at]

\* HideOverlay that never starts the deferred-click wait
HideOverlayNeverWaits ==
    [is_visible |-> FALSE,
     hide_requested |-> FALSE,
     key_input_buffer |-> <<>>,
     selected |-> None,
     display_mode |-> "MainGrid",
     is_hiding |-> FALSE,
     hide_initiated_at |-> hide_initiated_at]

\* what hiding a visible overlay stores: both flags false, the selection
\* reset, and the deferred-click wait started when a target is stored
HideOverlay ==
    [is_visible |-> FALSE,
     hide_requested |-> FALSE,
     key_input_buffer |-> <<>>,
     selected |-> None,
     display_mode |-> "MainGrid",
     is_hiding |-> is_some(pending_click_pos_after_hide),
     hide_initiated_at |-> IF is_some(pending_click_pos_after_hide)
                           THEN Some(Instant_now) ELSE hide_initiated_at]

\* the hide_requested block: hide a visible overlay and return, starting the
\* deferred-click wait when a target is stored; when not visible, drop the
\* request together with any stored target
UpdateHide ==
    /\ npc = "hide"
    /\ LET hide_req == hide_requested IN
       IF hide_req
       THEN IF is_visible
            THEN /\ is_visible' = HideOverlay.is_visible
                 /\ hide_requested' = HideOverlay.hide_requested
                 /\ key_input_buffer' = HideOverlay.key_input_buffer
                 /\ selected_main_cell_index' = HideOverlay.selected
                 /\ display_mode' = HideOverlay.display_mode
                 /\ is_hiding_to_perform_click' = HideOverlay.is_hiding
                 /\ hide_initiated_at' = HideOverlay.hide_initiated_at
                 /\ npc' = "recv"
                 /\ UNCHANGED pending_click_pos_after_hide
            ELSE /\ hide_requested' = FALSE
                 /\ pending_click_pos_after_hide' = None
                 /\ is_hiding_to_perform_click' = FALSE
                 /\ hide_initiated_at' = None
                 /\ npc' = "click"
                 /\ UNCHANGED <<is_visible, key_input_buffer, selected_main_cell_index, display_mode>>
       ELSE /\ npc' = "click"
            /\ UNCHANGED <<is_visible, hide_requested, key_input_buffer, selected_main_cell_index,
                           display_mode, is_hiding_to_perform_click, hide_initiated_at,
                           pending_click_pos_after_hide>>
    /\ UNCHANGED <<lshift_key_is_pressed, event_chan, detector, main_grid_labels, main_grid_rects,
                   sub_grid_labels, sub_grid_rects, last_layout_screen_rect, os, window, args>>

\* ClickEvents that posts the down event twice
ClickEventsDoubleDown(pos, source_ok, down_ok, up_ok) ==
    LET button == IF lshift_key_is_pressed THEN "Right" ELSE "Left"
        ev(kind) == [kind |-> kind, point |-> pos, button |-> button]
    IN IF source_ok
       THEN (IF down_ok THEN <<ev("down"), ev("down")>> ELSE <<>>)
            \o (IF up_ok THEN <<ev("up")>> ELSE <<>>)
       ELSE <<>>


\* ClickEvents whose up event always uses the left button
ClickEventsUpLeft(pos, source_ok, down_ok, up_ok) ==
    LET button == IF lshift_key_is_pressed THEN "Right" ELSE "Left"
        ev(kind) == [kind |-> kind, point |-> pos,
                     button |-> IF kind = "up" THEN "Left" ELSE button]
    IN IF source_ok
       THEN (IF down_ok THEN <<ev("down")>> ELSE <<>>) \o (IF up_ok THEN <<ev("up")>> ELSE <<>>)
       ELSE <<>>

\* the synthetic events one click posts at pos: the button is chosen by one
\* load of lshift_key_is_pressed; nothing is posted without an event source,
\* and the down and the up event are each posted when their creation succeeded
ClickEvents(pos, source_ok, down_ok, up_ok) ==
    LET button == IF lshift_key_is_pressed THEN "Right" ELSE "Left"
        ev(kind) == [kind |-> kind, point |-> pos, button |-> button]
    IN IF source_ok
       THEN (IF down_ok THEN <<ev("down")>> ELSE <<>>) \o (IF up_ok THEN <<ev("up")>> ELSE <<>>)
       ELSE <<>>

\* ClickCalls that restores the window only when the event source was created
ClickCallsRestoreInSource(pos, window_ok, source_ok, down_ok, up_ok) ==
    (IF window_ok THEN <<[kind |-> "setIgnoresMouseEvents", value |-> TRUE]>> ELSE <<>>)
    \o ClickEvents(pos, source_ok, down_ok, up_ok)
    \o (IF window_ok /\ source_ok
        THEN <<[kind |-> "setIgnoresMouseEvents", value |-> FALSE]>> ELSE <<>>)

\* the calls the click block makes for the target pos, in order:
\* setIgnoresMouseEvents:true when the window pointer was obtained
\* (window_ok), the posts of ClickEvents, and setIgnoresMouseEvents:false
\* under the same test of the pointer, whatever the event source returned
ClickCalls(pos, window_ok, source_ok, down_ok, up_ok) ==
    (IF window_ok THEN <<[kind |-> "setIgnoresMouseEvents", value |-> TRUE]>> ELSE <<>>)
    \o ClickEvents(pos, source_ok, down_ok, up_ok)
    \o (IF window_ok THEN <<[kind |-> "setIgnoresMouseEvents", value |-> FALSE]>> ELSE <<>>)

\* whether the window ignores mouse events after the calls: the value of the
\* last setIgnoresMouseEvents among them, or what it was before
IgnoresAfter(calls, before) ==
    LET sets == SelectSeq(calls, LAMBDA c : c.kind = "setIgnoresMouseEvents")
    IN IF sets = <<>> THEN before ELSE sets[Len(sets)].value

\* the tick on which the deferred-click block takes the stored target
SynthesizingTick ==
    /\ npc = "click"
    /\ is_hiding_to_perform_click
    /\ is_some(hide_initiated_at)
    /\ elapsed(unwrap(hide_initiated_at)) >= CLICK_DELAY_MS

\* the is_hiding_to_perform_click block: once CLICK_DELAY_MS have elapsed
\* since hide_initiated_at, take the stored target, post the click and reset
UpdateClick(window_ok, source_ok, down_ok, up_ok) ==
    /\ npc = "click"
    /\ npc' = "ui"
    /\ IF is_hiding_to_perform_click
       THEN IF is_some(hide_initiated_at)
            THEN IF elapsed(unwrap(hide_initiated_at)) >= CLICK_DELAY_MS
                 THEN /\ posted' = IF is_some(pending_click_pos_after_hide)
                                   THEN posted \o ClickEvents(unwrap(pending_click_pos_after_hide),
                                                              source_ok, down_ok, up_ok)
                                   ELSE posted
                      /\ \E calls \in {IF is_some(pending_click_pos_after_hide)
                                       THEN ClickCalls(unwrap(pending_click_pos_after_hide),
                                                       window_ok, source_ok, down_ok, up_ok)
                                       ELSE <<>>} :
                            /\ click_calls' = click_calls \o calls
                            /\ ignores_mouse_events' = IgnoresAfter(calls, ignores_mouse_events)
                      /\ UNCHANGED repaint_requests
                      /\ is_hiding_to_perform_click' = FALSE
                      /\ hide_initiated_at' = None
                      /\ pending_click_pos_after_hide' = None
                      /\ key_input_buffer' = <<>>
                      /\ selected_main_cell_index' = None
                      /\ display_mode' = "MainGrid"
                      /\ hide_requested' = FALSE
                 ELSE /\ repaint_requests' = repaint_requests \cup {CLICK_POLL_MS}
                      /\ UNCHANGED <<posted, ignores_mouse_events, click_calls,
                                     is_hiding_to_perform_click, hide_initiated_at,
                                     pending_click_pos_after_hide, key_input_buffer,
                                     selected_main_cell_index, display_mode, hide_requested>>
            ELSE /\ is_hiding_to_perform_click' = FALSE
                 /\ pending_click_pos_after_hide' = None
                 /\ hide_requested' = FALSE
                 /\ UNCHANGED <<posted, window, hide_initiated_at, key_input_buffer,
                                selected_main_cell_index, display_mode>>
       ELSE UNCHANGED <<posted, window, is_hiding_to_perform_click, hide_initiated_at,
                       pending_click_pos_after_hide, key_input_buffer,
                       selected_main_cell_index, display_mode, hide_requested>>
    /\ UNCHANGED <<is_visible, lshift_key_is_pressed, event_chan, detector, main_grid_labels,
                   main_grid_rects, sub_grid_labels, sub_grid_rects, last_layout_screen_rect,
                   mouse_pos, args>>

\* perform_mouse_click on the fields s of the app: with the window's outer
\* rectangle known and the pointer moved, store the global target; in every
\* case store hide_requested = true
\* perform_mouse_click that stores the target although the pointer move failed
perform_mouse_click_ignoring_move(s, window_relative_point, outer_rect, move_ok) ==
    IF is_some(outer_rect)
    THEN LET global_click_point == add2(unwrap(outer_rect).min, window_relative_point) IN
         [s EXCEPT !.mouse_pos = IF move_ok THEN global_click_point ELSE s.mouse_pos,
                   !.pending = Some(global_click_point),
                   !.hide_requested = TRUE]
    ELSE [s EXCEPT !.pending = None, !.hide_requested = TRUE]

\* perform_mouse_click that stores the window-relative point as the target
perform_mouse_click_window_relative(s, window_relative_point, outer_rect, move_ok) ==
    IF is_some(outer_rect)
    THEN IF ~move_ok
         THEN [s EXCEPT !.hide_requested = TRUE, !.pending = None]
         ELSE [s EXCEPT !.mouse_pos = window_relative_point,
                        !.pending = Some(window_relative_point),
                        !.hide_requested = TRUE]
    ELSE [s EXCEPT !.pending = None, !.hide_requested = TRUE]

perform_mouse_click(s, window_relative_point, outer_rect, move_ok) ==
    IF is_some(outer_rect)
    THEN LET global_click_point == add2(unwrap(outer_rect).min, window_relative_point) IN
         IF ~move_ok
         THEN [s EXCEPT !.hide_requested = TRUE, !.pending = None]
         ELSE [s EXCEPT !.mouse_pos = global_click_point,
                        !.pending = Some(global_click_point),
                        !.hide_requested = TRUE]
    ELSE [s EXCEPT !.pending = None, !.hide_requested = TRUE]

\* Relayout that keeps the old sub-grid rectangles after a new main layout
RelayoutKeepsSubGrid(s, current_content_rect) ==
    IF VecLen(s.main_grid_rects) = 0 \/ s.last_layout_screen_rect # current_content_rect
    THEN LET layout == generate_main_grid_layout(MAIN_GRID_COLS, MAIN_GRID_ROWS, current_content_rect)
             s1 == [s EXCEPT !.main_grid_labels = layout.labels,
                             !.main_grid_rects = layout.rects,
                             !.last_layout_screen_rect = current_content_rect]
         IN IF s1.display_mode = "SubGrid"
            THEN IF is_some(s1.selected) /\ unwrap(s1.selected) < VecLen(s1.main_grid_rects)
                 THEN s1
                 ELSE [s1 EXCEPT !.display_mode = "MainGrid"]
            ELSE s1
    ELSE s

\* Relayout that keeps the sub-grid mode when the selection is out of range
RelayoutKeepsMode(s, current_content_rect) ==
    IF VecLen(s.main_grid_rects) = 0 \/ s.last_layout_screen_rect # current_content_rect
    THEN LET layout == generate_main_grid_layout(MAIN_GRID_COLS, MAIN_GRID_ROWS, current_content_rect)
             s1 == [s EXCEPT !.main_grid_labels = layout.labels,
                             !.main_grid_rects = layout.rects,
                             !.last_layout_screen_rect = current_content_rect]
         IN IF s1.display_mode = "SubGrid"
            THEN IF is_some(s1.selected) /\ unwrap(s1.selected) < VecLen(s1.main_grid_rects)
                 THEN LET sg == generate_sub_grid_layout(VecAt(s1.main_grid_rects, unwrap(s1.selected)),
                                                         SUB_GRID_COLS, SUB_GRID_ROWS)
                      IN [s1 EXCEPT !.sub_grid_labels = sg.labels, !.sub_grid_rects = sg.rects]
                 ELSE s1
            ELSE s1
    ELSE s

\* the layout block of update: recompute the main grid when there are no
\* rectangles or the content rectangle changed, then the sub-grid of the
\* selected cell, falling back to the main grid on a stale selection
Relayout(s, current_content_rect) ==
    IF VecLen(s.main_grid_rects) = 0 \/ s.last_layout_screen_rect # current_content_rect
    THEN LET layout == generate_main_grid_layout(MAIN_GRID_COLS, MAIN_GRID_ROWS, current_content_rect)
             s1 == [s EXCEPT !.main_grid_labels = layout.labels,
                             !.main_grid_rects = layout.rects,
                             !.last_layout_screen_rect = current_content_rect]
         IN IF s1.display_mode = "SubGrid"
            THEN IF is_some(s1.selected) /\ unwrap(s1.selected) < VecLen(s1.main_grid_rects)
                 THEN LET sg == generate_sub_grid_layout(VecAt(s1.main_grid_rects, unwrap(s1.selected)),
                                                         SUB_GRID_COLS, SUB_GRID_ROWS)
                      IN [s1 EXCEPT !.sub_grid_labels = sg.labels, !.sub_grid_rects = sg.rects]
                 ELSE [s1 EXCEPT !.display_mode = "MainGrid"]
            ELSE s1
    ELSE s

\* MainGridKey that leaves an unmatched pair in the buffer
MainGridKeyKeepsUnmatched(s, key) ==
    IF is_some(key_to_char(key))
    THEN LET buffer == Append(s.key_input_buffer, unwrap(key_to_char(key))) IN
         IF Len(buffer) = 2
         THEN LET index == Position(s.main_grid_labels, buffer) IN
              IF is_some(index)
              THEN IF unwrap(index) < VecLen(s.main_grid_rects)
                   THEN LET sg == generate_sub_grid_layout(VecAt(s.main_grid_rects, unwrap(index)),
                                                           SUB_GRID_COLS, SUB_GRID_ROWS)
                        IN [s EXCEPT !.selected = index, !.display_mode = "SubGrid",
                                     !.key_input_buffer = <<>>,
                                     !.sub_grid_labels = sg.labels, !.sub_grid_rects = sg.rects]
                   ELSE [s EXCEPT !.selected = index, !.display_mode = "MainGrid",
                                  !.key_input_buffer = <<>>]
              ELSE [s EXCEPT !.key_input_buffer = buffer]
         ELSE [s EXCEPT !.key_input_buffer = buffer]
    ELSE s

\* one key-down in the main-grid loop: push the letter, and on the second
\* letter look the buffer up among the labels
MainGridKey(s, key) ==
    IF is_some(key_to_char(key))
    THEN LET buffer == Append(s.key_input_buffer, unwrap(key_to_char(key))) IN
         IF Len(buffer) = 2
         THEN LET index == Position(s.main_grid_labels, buffer) IN
              IF is_some(index)
              THEN IF unwrap(index) < VecLen(s.main_grid_rects)
                   THEN LET sg == generate_sub_grid_layout(VecAt(s.main_grid_rects, unwrap(index)),
                                                           SUB_GRID_COLS, SUB_GRID_ROWS)
                        IN [s EXCEPT !.selected = index, !.display_mode = "SubGrid",
                                     !.key_input_buffer = <<>>,
                                     !.sub_grid_labels = sg.labels, !.sub_grid_rects = sg.rects]
                   ELSE [s EXCEPT !.selected = index, !.display_mode = "MainGrid",
                                  !.key_input_buffer = <<>>]
              ELSE [s EXCEPT !.key_input_buffer = <<>>]
         ELSE [s EXCEPT !.key_input_buffer = buffer]
    ELSE s

\* the main-grid loop over the events of the tick (the mode is tested once,
\* before the loop)
RECURSIVE MainGridKeys(_, _)
MainGridKeys(s, events) ==
    IF events = <<>> THEN s
    ELSE \* t is the app after the first key, evaluated once
         CHOOSE r \in {MainGridKeys(t, Tail(events)) : t \in {MainGridKey(s, Head(events))}} : TRUE

\* the sub-grid loop without the break after a click
RECURSIVE SubGridKeysNoBreak(_, _, _, _)
SubGridKeysNoBreak(s, events, outer_rect, move_ok) ==
    IF events = <<>> THEN s
    ELSE LET key == Head(events)
             sub_idx == IF is_some(key_to_char(key))
                        THEN Position(s.sub_grid_labels, <<unwrap(key_to_char(key))>>)
                        ELSE None
             t == IF key = "Space" /\ is_some(s.selected) /\ unwrap(s.selected) < VecLen(s.main_grid_rects)
                  THEN perform_mouse_click(s, center(VecAt(s.main_grid_rects, unwrap(s.selected))),
                                           outer_rect, move_ok)
                  ELSE IF is_some(sub_idx) /\ unwrap(sub_idx) < VecLen(s.sub_grid_rects)
                       THEN perform_mouse_click(s, center(VecAt(s.sub_grid_rects, unwrap(sub_idx))),
                                                outer_rect, move_ok)
                       ELSE s
         IN SubGridKeysNoBreak(t, Tail(events), outer_rect, move_ok)

\* the sub-grid loop: Space clicks the centre of the selected main cell, a
\* sub-grid label clicks the centre of its cell; the loop breaks after a click
RECURSIVE SubGridKeys(_, _, _, _)
SubGridKeys(s, events, outer_rect, move_ok) ==
    IF events = <<>> THEN s
    ELSE LET key == Head(events)
             sub_idx == IF is_some(key_to_char(key))
                        THEN Position(s.sub_grid_labels, <<unwrap(key_to_char(key))>>)
                        ELSE None
         IN IF key = "Space" /\ is_some(s.selected) /\ unwrap(s.selected) < VecLen(s.main_grid_rects)
            THEN perform_mouse_click(s, center(VecAt(s.main_grid_rects, unwrap(s.selected))),
                                     outer_rect, move_ok)
            ELSE IF is_some(sub_idx) /\ unwrap(sub_idx) < VecLen(s.sub_grid_rects)
                 THEN perform_mouse_click(s, center(VecAt(s.sub_grid_rects, unwrap(sub_idx))),
                                          outer_rect, move_ok)
                 ELSE SubGridKeys(s, Tail(events), outer_rect, move_ok)

\* the fields of the app the layout and the key loops read and write
AppFields ==
    [display_mode |-> display_mode, key_input_buffer |-> key_input_buffer,
     selected |-> selected_main_cell_index,
     main_grid_labels |-> main_grid_labels, main_grid_rects |-> main_grid_rects,
     sub_grid_labels |-> sub_grid_labels, sub_grid_rects |-> sub_grid_rects,
     last_layout_screen_rect |-> last_layout_screen_rect,
     pending |-> pending_click_pos_after_hide, hide_requested |-> hide_requested,
     mouse_pos |-> mouse_pos]

\* the key loop of the mode the layout left in s
KeyLoops(s, events, outer_rect, move_ok) ==
    IF s.display_mode = "MainGrid" THEN MainGridKeys(s, events)
    ELSE IF s.display_mode = "SubGrid" THEN SubGridKeys(s, events, outer_rect, move_ok)
    ELSE s

\* update, last part: return when hidden with no click waiting; otherwise
\* lay out for the current content size (laid is the app after the layout
\* block) and handle the key events of the tick
UpdateUI(laid, events, outer_rect, move_ok) ==
    /\ npc = "ui"
    /\ npc' = "recv"
    /\ IF ~is_visible /\ ~is_hiding_to_perform_click
       THEN /\ repaint_requests' = repaint_requests \cup {HIDDEN_POLL_MS}
            /\ UNCHANGED <<display_mode, key_input_buffer, selected_main_cell_index,
                           main_grid_labels, main_grid_rects, sub_grid_labels, sub_grid_rects,
                           last_layout_screen_rect, pending_click_pos_after_hide,
                           hide_requested, mouse_pos>>
       ELSE \* s is the app after the key loop, evaluated once; the call ends
            \* with request_repaint()
            \E s \in {KeyLoops(laid, events, outer_rect, move_ok)} :
            /\ repaint_requests' = repaint_requests \cup {0}
            /\ display_mode' = s.display_mode
            /\ key_input_buffer' = s.key_input_buffer
            /\ selected_main_cell_index' = s.selected
            /\ main_grid_labels' = s.main_grid_labels
            /\ main_grid_rects' = s.main_grid_rects
            /\ sub_grid_labels' = s.sub_grid_labels
            /\ sub_grid_rects' = s.sub_grid_rects
            /\ last_layout_screen_rect' = s.last_layout_screen_rect
            /\ pending_click_pos_after_hide' = s.pending
            /\ hide_requested' = s.hide_requested
            /\ mouse_pos' = s.mouse_pos
    /\ UNCHANGED <<is_visible, lshift_key_is_pressed, event_chan, detector,
                   is_hiding_to_perform_click, hide_initiated_at, posted,
                   ignores_mouse_events, click_calls>>

\* ------------------------------------------------------------ environment
\* the keys the user types, in the order the bound NumKeys admits them
KeyOrder == <<"A", "Space", "Z", "H", "Enter">>
Keys == {KeyOrder[i] : i \in 1..Min(NumKeys, Len(KeyOrder))}
RECURSIVE SeqsUpTo(_, _)
SeqsUpTo(S, n) ==
    IF n = 0 THEN {<<>>}
    ELSE LET shorter == SeqsUpTo(S, n - 1) IN
         shorter \cup {Append(q, x) : q \in shorter, x \in S}
KeyEvents == SeqsUpTo(Keys, MaxEvents)
\* content size of the maximized window
ScreenSizes == {vec2(1200, 1200)}
\* the viewport's outer rectangle, when the framework reports one
OuterRects == {None, Some(from_min_size(pos2(100, 50), vec2(1200, 1200)))}

\* the window pointer is read, and the event source and the two mouse events
\* are created, only when a click is synthesized
ClickResults == IF SynthesizingTick THEN BOOLEAN ELSE {TRUE}

Click == \E window_ok \in ClickResults, source_ok \in ClickResults,
             down_ok \in ClickResults, up_ok \in ClickResults :
            UpdateClick(window_ok, source_ok, down_ok, up_ok)
UI == \E screen_size \in ScreenSizes :
        LET laid == Relayout(AppFields, from_min_size(pos2(0, 0), screen_size)) IN
        \E events \in KeyEvents :
            \* the outer rectangle is read and the pointer moved only by
            \* perform_mouse_click, which only the sub-grid loop calls
            \E outer_rect \in (IF laid.display_mode = "SubGrid" THEN OuterRects ELSE {None}) :
                \E move_ok \in (IF is_some(outer_rect) THEN BOOLEAN ELSE {TRUE}) :
                    UpdateUI(laid, events, outer_rect, move_ok) /\ UNCHANGED args

\* time passes: every stored instant is TimeStep ms older
Advance ==
    /\ rcmd_press_time' = Aged(rcmd_press_time)
    /\ hide_initiated_at' = Aged(hide_initiated_at)
    /\ UNCHANGED <<shared, dpc, tap_result, display_mode, key_input_buffer,
                   selected_main_cell_index, main_grid_labels, main_grid_rects,
                   sub_grid_labels, sub_grid_rects, last_layout_screen_rect,
                   is_hiding_to_perform_click, pending_click_pos_after_hide,
                   npc, os, window, args>>

\* the detector thread and the render loop running concurrently
Next ==
    \/ TapEvent
    \/ EscapeStore
    \/ UpdateRecv
    \/ UpdateShow
    \/ UpdateHide
    \/ Click
    \/ UI
    \/ Advance

Spec == Init /\ [][Next]_vars

\* ------------------------------------------------- key handling on its own
\* The render loop alone, from the state the ShowGrid branch leaves, with
\* every key of the keyboard, bursts of keys within one tick, and a framework
\* that reports no outer rectangle.
AllKeys == Letters \cup {"Space", "Enter"}
BurstKeys == {"A", "Z", "Space"}
NavKeyEvents == SeqsUpTo(AllKeys, 1) \cup SeqsUpTo(BurstKeys, MaxEvents + 1)
NavScreenSizes == {vec2(1200, 1200)}

InitKeys ==
    /\ is_visible = TRUE
    /\ hide_requested = FALSE
    /\ lshift_key_is_pressed = FALSE
    /\ event_chan = <<>>
    /\ rcmd_press_time = None
    /\ dpc = "wait"
    /\ tap_result = "Some(event)"
    /\ display_mode = "MainGrid"
    /\ key_input_buffer = <<>>
    /\ selected_main_cell_index = None
    /\ main_grid_labels = generate_main_grid_layout(MAIN_GRID_COLS, MAIN_GRID_ROWS,
                              from_min_size(pos2(0, 0), vec2(100, 100))).labels
    /\ main_grid_rects = EmptyVec
    /\ sub_grid_labels = EmptyVec
    /\ sub_grid_rects = EmptyVec
    /\ last_layout_screen_rect = NOTHING
    /\ is_hiding_to_perform_click = FALSE
    /\ hide_initiated_at = None
    /\ pending_click_pos_after_hide = None
    /\ npc = "hide"
    /\ mouse_pos = pos2(0, 0)
    /\ posted = <<>>
    /\ ignores_mouse_events = FALSE
    /\ click_calls = <<>>
    /\ repaint_requests = {}
    /\ args = <<>>

KeysUIWith(events) ==
    \E screen_size \in NavScreenSizes :
        /\ UpdateUI(Relayout(AppFields, from_min_size(pos2(0, 0), screen_size)), events, None, TRUE)
        /\ UNCHANGED args

KeysUI == \E events \in NavKeyEvents : KeysUIWith(events)

NextKeys ==
    \/ UpdateRecv
    \/ UpdateHide
    \/ Click
    \/ KeysUI

SpecKeys == InitKeys /\ [][NextKeys]_vars

\* ------------------------------------------------- the modifiers of a tap
\* The detector with the flag-change events of every modifier key, in every
\* combination of the command and the shift flag, Escape, and passing time;
\* the render loop runs without key events, so that the overlay is shown and
\* hidden.
ModifierEvents ==
    [type : {"FlagsChanged"}, key_code : 54..63, cmd : BOOLEAN, shift : BOOLEAN]
    \cup [type : {"KeyDown"}, key_code : {ESCAPE_KEY_CODE}, cmd : {FALSE}, shift : {FALSE}]

ModifierEvent ==
    \E e \in ModifierEvents :
        \E cursor \in (IF IsRcmdRelease(e) /\ RcmdReleaseSends THEN CursorResults ELSE {None}) :
            callback_closure(e, cursor)

ModifierUI ==
    /\ UpdateUI(Relayout(AppFields, from_min_size(pos2(0, 0), vec2(1200, 1200))),
                <<>>, None, TRUE)
    /\ UNCHANGED args

NextModifiers ==
    \/ ModifierEvent
    \/ EscapeStore
    \/ UpdateRecv
    \/ UpdateShow
    \/ UpdateHide
    \/ Click
    \/ ModifierUI
    \/ Advance

SpecModifiers == Init /\ [][NextModifiers]_vars


\* ------------------------------------------------------ fair render ticks
\* The two threads as in Spec, with the render loop called again and again:
\* whichever part of update is next is eventually executed.
Tick == UpdateRecv \/ UpdateShow \/ UpdateHide \/ Click \/ UI

SpecFair == Init /\ [][Next]_vars /\ WF_vars(Tick)


\* ------------------------------------------- the click button and the shift
\* The render loop with the left-shift events of the detector and passing
\* time; args records lshift_key_is_pressed as it was when perform_mouse_click
\* stored the target (None before the first scheduling).
SnapOuterRect == Some(from_min_size(pos2(100, 50), vec2(1200, 1200)))

SnapUI ==
    \E screen_size \in ScreenSizes, events \in KeyEvents :
        /\ UpdateUI(Relayout(AppFields, from_min_size(pos2(0, 0), screen_size)),
                    events, SnapOuterRect, TRUE)
        /\ args' = IF hide_requested' /\ ~hide_requested /\ is_some(pending_click_pos_after_hide')
                   THEN Some(lshift_key_is_pressed) ELSE args

ShiftEvent ==
    \E e \in {t \in TapEvents : t.type = "FlagsChanged" /\ t.key_code = LEFT_SHIFT_KEY_CODE} :
        callback_closure(e, None)

NextSnap ==
    \/ UpdateRecv
    \/ UpdateHide
    \/ Click
    \/ SnapUI
    \/ ShiftEvent
    \/ Advance

SpecSnap == InitKeys /\ [][NextSnap]_vars

\* ------------------------------------------------- the overlay in a window
\* The render loop alone with a known outer rectangle, a pointer that moves,
\* and a window whose content size changes between ticks: the configured
\* size, a smaller one, a degenerate one that yields no cells, and a narrow
\* one whose main cells are too narrow for a sub-grid.  No time
\* passes, so a scheduled click stays scheduled.
WindowSizes == {vec2(1200, 1200), vec2(600, 600), vec2(1, 1), vec2(12, 1200)}
\* the keys of a tick: pairs over two letters while the main grid is shown;
\* any single key, or a pair over a few keys, while the sub-grid is shown
WindowEvents(mode) ==
    IF mode = "SubGrid" THEN {<<k>> : k \in AllKeys} \cup SeqsUpTo({"A", "Y", "Z", "Space"}, 2)
    ELSE SeqsUpTo({"A", "H"}, 2)

WindowTick(screen_size, events) ==
    /\ UpdateUI(Relayout(AppFields, from_min_size(pos2(0, 0), screen_size)),
                events, SnapOuterRect, TRUE)
    /\ UNCHANGED args

WindowUI ==
    \E screen_size \in WindowSizes :
        \E events \in WindowEvents(Relayout(AppFields,
                          from_min_size(pos2(0, 0), screen_size)).display_mode) :
            WindowTick(screen_size, events)

NextWindow ==
    \/ UpdateRecv
    \/ UpdateHide
    \/ Click
    \/ WindowUI

SpecWindow == InitKeys /\ [][NextWindow]_vars

\* ------------------------------------------ show, keys, resize and hide
\* The render loop with taps of right command that show the overlay again
\* after it was hidden, a window whose content size changes between ticks,
\* and a few bursts of keys: a label, a label followed by one more key, the
\* keys that click in a sub-grid.
ResizeSizes == {vec2(1200, 1200), vec2(600, 600), vec2(1, 1)}
ResizeEvents(mode) ==
    IF mode = "SubGrid" THEN {<<>>, <<"Space">>, <<"Y">>}
    ELSE {<<>>, <<"A">>, <<"H">>, <<"A", "H">>, <<"A", "H", "A">>}

\* a press or a release of right command reaches the callback
ResizeTap ==
    \E e \in {t \in TapEvents : t.type = "FlagsChanged" /\ t.key_code = RIGHT_COMMAND_KEY_CODE} :
        callback_closure(e, None)

ResizeUI ==
    \E screen_size \in ResizeSizes :
        \E events \in ResizeEvents(Relayout(AppFields,
                          from_min_size(pos2(0, 0), screen_size)).display_mode) :
            WindowTick(screen_size, events)

NextResize ==
    \/ ResizeTap
    \/ UpdateRecv
    \/ UpdateShow
    \/ UpdateHide
    \/ Click
    \/ ResizeUI

SpecResize == InitKeys /\ [][NextResize]_vars

\* --------------------------------------------------- counting the clicks
\* The render loop with taps that show the overlay again, the keys that
\* select a cell and click, and passing time; args counts the schedulings
\* (perform_mouse_click storing a target) and the button events posted,
\* the latter added up at the end of the call of update that posted them.
CountEvents(mode) ==
    IF mode = "SubGrid" THEN {<<>>, <<"Space">>, <<"Y">>}
    ELSE {<<>>, <<"A", "H">>}

InitCount ==
    /\ is_visible = FALSE
    /\ hide_requested = FALSE
    /\ lshift_key_is_pressed = FALSE
    /\ event_chan = <<>>
    /\ rcmd_press_time = None
    /\ dpc = "wait"
    /\ tap_result = "no event"
    /\ display_mode = "MainGrid"
    /\ key_input_buffer = <<>>
    /\ selected_main_cell_index = None
    /\ main_grid_labels = generate_main_grid_layout(MAIN_GRID_COLS, MAIN_GRID_ROWS,
                              from_min_size(pos2(0, 0), vec2(100, 100))).labels
    /\ main_grid_rects = EmptyVec
    /\ sub_grid_labels = EmptyVec
    /\ sub_grid_rects = EmptyVec
    /\ last_layout_screen_rect = NOTHING
    /\ is_hiding_to_perform_click = FALSE
    /\ hide_initiated_at = None
    /\ pending_click_pos_after_hide = None
    /\ npc = "recv"
    /\ mouse_pos = pos2(0, 0)
    /\ posted = <<>>
    /\ ignores_mouse_events = FALSE
    /\ click_calls = <<>>
    /\ repaint_requests = {}
    /\ args = [scheduled |-> 0, downs |-> 0, ups |-> 0]

\* how many events of the kind the current call of update has posted
PostedOfKind(kind) == Len(SelectSeq(posted, LAMBDA ev : ev.kind = kind))

CountUI ==
    \E screen_size \in ScreenSizes :
        \E events \in CountEvents(Relayout(AppFields,
                          from_min_size(pos2(0, 0), screen_size)).display_mode) :
            /\ UpdateUI(Relayout(AppFields, from_min_size(pos2(0, 0), screen_size)),
                        events, SnapOuterRect, TRUE)
            /\ args' = [scheduled |-> args.scheduled
                                       + (IF hide_requested' /\ ~hide_requested
                                             /\ is_some(pending_click_pos_after_hide')
                                          THEN 1 ELSE 0),
                        downs |-> args.downs + PostedOfKind("down"),
                        ups |-> args.ups + PostedOfKind("up")]
            /\ args'.scheduled <= MaxClicks

CountTap ==
    \E e \in {t \in TapEvents : t.type = "FlagsChanged" /\ t.key_code = RIGHT_COMMAND_KEY_CODE} :
        callback_closure(e, None)

NextCount ==
    \/ CountTap
    \/ UpdateRecv
    \/ UpdateShow
    \/ UpdateHide
    \/ Click
    \/ CountUI
    \/ Advance

SpecCount == InitCount /\ [][NextCount]_vars

\* ------------------------------------------------------------- start-up
\* main() spawns global_event_listener_thread and calls eframe::run_native.
\* dpc = "install" is the listener before CGEventTap::new, "returned" the
\* listener thread after it returned from a failed installation; npc =
\* "start" is main before run_native, "exit_err" main after it returned Err.
InitStart ==
    /\ is_visible = FALSE
    /\ hide_requested = FALSE
    /\ lshift_key_is_pressed = FALSE
    /\ event_chan = <<>>
    /\ rcmd_press_time = None
    /\ dpc = "install"
    /\ tap_result = "no event"
    /\ display_mode = "MainGrid"
    /\ key_input_buffer = <<>>
    /\ selected_main_cell_index = None
    /\ main_grid_labels = generate_main_grid_layout(MAIN_GRID_COLS, MAIN_GRID_ROWS,
                              from_min_size(pos2(0, 0), vec2(100, 100))).labels
    /\ main_grid_rects = EmptyVec
    /\ sub_grid_labels = EmptyVec
    /\ sub_grid_rects = EmptyVec
    /\ last_layout_screen_rect = NOTHING
    /\ is_hiding_to_perform_click = FALSE
    /\ hide_initiated_at = None
    /\ pending_click_pos_after_hide = None
    /\ npc = "start"
    /\ mouse_pos = pos2(0, 0)
    /\ posted = <<>>
    /\ ignores_mouse_events = FALSE
    /\ click_calls = <<>>
    /\ repaint_requests = {}
    /\ args = <<>>

\* CGEventTap::new and CFMachPortCreateRunLoopSource: on either failure the
\* listener prints and returns; otherwise the tap is enabled and the run
\* loop delivers events to the callback
InstallTap(tap_ok, source_ok) ==
    /\ dpc = "install"
    /\ dpc' = IF tap_ok /\ source_ok THEN "wait" ELSE "returned"
    /\ UNCHANGED <<shared, rcmd_press_time, tap_result, nav, npc, os, window, args>>

\* eframe::run_native: the render loop starts, or main returns Err
RunNative(run_ok) ==
    /\ npc = "start"
    /\ npc' = IF run_ok THEN "recv" ELSE "exit_err"
    /\ UNCHANGED <<shared, detector, nav, os, window, args>>

Install == \E tap_ok \in BOOLEAN, source_ok \in BOOLEAN : InstallTap(tap_ok, source_ok)
Run == \E run_ok \in BOOLEAN : RunNative(run_ok)
\* the listener thread ends with the process
ListenerStep == npc # "exit_err" /\ (TapEvent \/ EscapeStore)

NextStart ==
    \/ Install
    \/ Run
    \/ ListenerStep
    \/ UpdateRecv
    \/ UpdateShow
    \/ UpdateHide
    \/ Click
    \/ UI

SpecStart == InitStart /\ [][NextStart]_vars

\* ------------------------------------------------ the layout functions alone
\* Init draws the arguments; the two actions apply the functions to them.
GridRects == {from_min_size(pos2(0, 0), vec2(1200, 1200)),
              from_min_size(pos2(120, 60), vec2(600, 600)),
              from_min_size(pos2(0, 0), vec2(1, 1))}

\* the column and row counts: the small ones, and one more than the 26
\* characters of first_chars and second_chars
GridCols == (1..MaxCols) \cup {Len(second_chars) + 1}
GridRows == (1..MaxRows) \cup {Len(first_chars) + 1}

InitGrid ==
    /\ args \in [num_cols : GridCols, num_rows : GridRows, rect : GridRects,
                 main_done : {FALSE}, sub_done : {FALSE}]
    /\ is_visible = FALSE
    /\ hide_requested = FALSE
    /\ lshift_key_is_pressed = FALSE
    /\ event_chan = <<>>
    /\ rcmd_press_time = None
    /\ dpc = "wait"
    /\ tap_result = "no event"
    /\ display_mode = "MainGrid"
    /\ key_input_buffer = <<>>
    /\ selected_main_cell_index = None
    /\ main_grid_labels = EmptyVec
    /\ main_grid_rects = EmptyVec
    /\ sub_grid_labels = EmptyVec
    /\ sub_grid_rects = EmptyVec
    /\ last_layout_screen_rect = NOTHING
    /\ is_hiding_to_perform_click = FALSE
    /\ hide_initiated_at = None
    /\ pending_click_pos_after_hide = None
    /\ npc = "recv"
    /\ mouse_pos = pos2(0, 0)
    /\ posted = <<>>
    /\ ignores_mouse_events = FALSE
    /\ click_calls = <<>>
    /\ repaint_requests = {}

LayoutMain ==
    /\ ~args.main_done
    /\ LET layout == generate_main_grid_layout(args.num_cols, args.num_rows, args.rect) IN
       /\ main_grid_labels' = layout.labels
       /\ main_grid_rects' = layout.rects
    /\ args' = [args EXCEPT !.main_done = TRUE]
    /\ UNCHANGED <<shared, detector, display_mode, key_input_buffer, selected_main_cell_index,
                   sub_grid_labels, sub_grid_rects, last_layout_screen_rect,
                   is_hiding_to_perform_click, hide_initiated_at,
                   pending_click_pos_after_hide, npc, os, window>>

LayoutSub ==
    /\ ~args.sub_done
    /\ LET layout == generate_sub_grid_layout(args.rect, args.num_cols, args.num_rows) IN
       /\ sub_grid_labels' = layout.labels
       /\ sub_grid_rects' = layout.rects
    /\ args' = [args EXCEPT !.sub_done = TRUE]
    /\ UNCHANGED <<shared, detector, display_mode, key_input_buffer, selected_main_cell_index,
                   main_grid_labels, main_grid_rects, last_layout_screen_rect,
                   is_hiding_to_perform_click, hide_initiated_at,
                   pending_click_pos_after_hide, npc, os, window>>

NextGrid == LayoutMain \/ LayoutSub

SpecGrid == InitGrid /\ [][NextGrid]_vars

\* ------------------------------------------------------------------ claims
\* the tick that synthesizes the click: in the click block with the wait over
\* C1: a synthetic button event is posted only by a step taken while the
\* overlay is hidden (is_visible = false) and at least 150 ms after the hide
\* that started the deferred-click wait.
C1_DeferredClickSafety ==
    [][posted' # <<>> /\ posted' # posted
        => /\ ~is_visible
           /\ is_some(hide_initiated_at)
           /\ elapsed(unwrap(hide_initiated_at)) >= CLICK_DELAY_MS]_vars

\* the Navigator state of the design, read off the fields of the app
NavigatorState ==
    IF is_hiding_to_perform_click THEN "PendingClick"
    ELSE IF ~is_visible THEN "Idle"
    ELSE IF display_mode = "SubGrid" THEN "SubGridActive"
    ELSE "MainGridActive"

\* C2 as stated: at every tick boundary is_visible is false exactly when the
\* Navigator is Idle, and true in MainGridActive, SubGridActive and
\* PendingClick.
C2_VisibilityInvariant ==
    npc = "recv" => (~is_visible <=> NavigatorState = "Idle")

\* C2 amended: the tick that enters PendingClick stores is_visible = false,
\* and is_visible turns true only in a tick that consumed a Show signal.
C2_VisibilityAmended ==
    [][/\ (~is_hiding_to_perform_click /\ is_hiding_to_perform_click' => ~is_visible')
       /\ (~is_visible /\ is_visible'
             => npc = "recv" /\ event_chan # <<>> /\ event_chan' = Tail(event_chan))]_vars

\* a tick boundary inside the deferred-click wait, with the overlay hidden
C2_Witness ==
    /\ npc = "recv"
    /\ is_hiding_to_perform_click
    /\ ~is_visible
    /\ is_some(pending_click_pos_after_hide)

\* C3: whenever is_hiding_to_perform_click is set a target point is stored.
C3_PendingClickHasTarget ==
    is_hiding_to_perform_click => is_some(pending_click_pos_after_hide)

\* C4: a hotkey release less than 200 ms after its recorded press, with the
\* overlay not visible, appends exactly one Show signal to the channel.
C4_TapSendsOneShow ==
    [][\A e \in TapEvents, cursor \in {Some(mouse_pos), None} :
          /\ IsRcmdRelease(e)
          /\ is_some(rcmd_press_time)
          /\ elapsed(unwrap(rcmd_press_time)) < RCMD_TAP_DURATION_MS
          /\ ~is_visible
          /\ callback_closure(e, cursor)
          => event_chan' = Append(event_chan, [kind |-> "ShowGrid", cursor_pos |-> cursor])]_vars

\* a Show signal is in the channel and the press that sent it is closed
C4_Witness ==
    /\ event_chan # <<>>
    /\ event_chan[Len(event_chan)].kind = "ShowGrid"
    /\ is_none(rcmd_press_time)
    /\ ~is_visible

\* C5: a hotkey release 200 ms or more after its recorded press sends
\* nothing, and every hotkey release leaves rcmd_press_time empty.
C5_HoldIsNotTap ==
    [][\A e \in TapEvents, cursor \in {Some(mouse_pos), None} :
          IsRcmdRelease(e) /\ callback_closure(e, cursor)
          => /\ is_none(rcmd_press_time')
             /\ (is_some(rcmd_press_time)
                   /\ elapsed(unwrap(rcmd_press_time)) >= RCMD_TAP_DURATION_MS
                 => event_chan' = event_chan)]_vars

\* the hotkey has been held for the tap window or longer, overlay hidden
C5_Witness ==
    /\ is_some(rcmd_press_time)
    /\ elapsed(unwrap(rcmd_press_time)) >= RCMD_TAP_DURATION_MS
    /\ ~is_visible
    /\ dpc = "wait"

\* C6: a hotkey release seen while the overlay is visible sends nothing, and
\* a Show signal received while it is visible skips the ShowGrid branch: no
\* field of the app and neither flag changes.
C6_NoReentrantShow ==
    [][/\ \A e \in TapEvents, cursor \in {Some(mouse_pos), None} :
            is_visible /\ callback_closure(e, cursor) => event_chan' = event_chan
       /\ (npc = "recv" /\ npc' # npc /\ event_chan # <<>> /\ is_visible
             => /\ npc' = "hide"
                /\ event_chan' = Tail(event_chan)
                /\ UNCHANGED <<nav, is_visible, hide_requested>>)]_vars

\* a Show signal waits in the channel while the overlay is already visible
C6_Witness ==
    /\ npc = "recv"
    /\ event_chan # <<>>
    /\ is_visible

\* C7: the main-grid layout returns num_cols * num_rows labels of two
\* characters each, pairwise distinct, and as many cells for a rectangle
\* wider and higher than 1.
C7_MainLabelsDistinct ==
    (args # <<>> /\ args.main_done) =>
        LET labels == ToSeq(main_grid_labels) IN
        /\ Len(labels) = args.num_cols * args.num_rows
        /\ \A i \in 1..Len(labels) : Len(labels[i]) = 2
        /\ \A i, j \in 1..Len(labels) : labels[i] = labels[j] => i = j
        /\ (width(args.rect) > 1 /\ height(args.rect) > 1
              => VecLen(main_grid_rects) = args.num_cols * args.num_rows)

\* the letters among the key events of a tick
Typed(events) == SelectSeq(events, LAMBDA key : key \in Letters)

\* C8: in the main grid, completing the label of cell k selects cell k and
\* lays the sub-grid out over the rectangle of cell k.
C8_LabelSelectsItsCell ==
    [][\A k \in 0..(MAIN_GRID_COLS * MAIN_GRID_ROWS - 1), events \in NavKeyEvents :
          /\ KeysUIWith(events)
          /\ is_visible
          /\ display_mode = "MainGrid"
          /\ key_input_buffer \o Typed(events) = VecAt(main_grid_labels, k)
          => /\ display_mode' = "SubGrid"
             /\ selected_main_cell_index' = Some(k)
             /\ sub_grid_rects' = generate_sub_grid_layout(VecAt(main_grid_rects', k),
                                                          SUB_GRID_COLS, SUB_GRID_ROWS).rects]_vars

\* no main-grid label equals the two letters
Unmatched(pair) ==
    \A k \in 0..(VecLen(main_grid_labels) - 1) : VecAt(main_grid_labels, k) # pair

\* no key of the tick is Space or the label of a sub-grid cell
NoSubGridHit(events) ==
    \A i \in 1..Len(events) :
        /\ events[i] # "Space"
        /\ \A j \in 0..(VecLen(sub_grid_labels) - 1) : VecAt(sub_grid_labels, j) # <<events[i]>>

\* C9: in the main grid, a second letter that completes a pair matching no
\* label leaves the mode at the main grid with an empty buffer; in the
\* sub-grid, keys matching no sub-grid label change neither mode nor
\* selection, store no target and do not set hide_requested.
C9_UnmatchedResets ==
    [][\A events \in NavKeyEvents :
          KeysUIWith(events) /\ is_visible =>
             /\ (/\ display_mode = "MainGrid"
                 /\ Len(key_input_buffer \o Typed(events)) = 2
                 /\ Unmatched(key_input_buffer \o Typed(events))
                 => display_mode' = "MainGrid" /\ key_input_buffer' = <<>>)
             /\ (/\ display_mode = "SubGrid"
                 /\ events # <<>>
                 /\ NoSubGridHit(events)
                 => UNCHANGED <<display_mode, selected_main_cell_index,
                                pending_click_pos_after_hide, hide_requested, mouse_pos>>)]_vars

\* one letter that starts no matching pair is in the buffer of the main grid
C9_Witness ==
    /\ npc = "ui"
    /\ is_visible
    /\ display_mode = "MainGrid"
    /\ key_input_buffer = <<"Z">>

\* C10: a stored click target is given up only by the tick that synthesizes
\* the click.
C10_ScheduledClickFires ==
    [][is_some(pending_click_pos_after_hide)
         /\ pending_click_pos_after_hide' # pending_click_pos_after_hide
        => SynthesizingTick]_vars

\* C11: the button of the synthetic events posted for a scheduled click is
\* the one selected by lshift_key_is_pressed as it was when the click was
\* scheduled (right when held, left otherwise), whatever left-shift events
\* the detector handled afterwards.
C11_ButtonSnapshot ==
    [][posted' # posted /\ posted' # <<>> /\ is_some(args)
        => \A i \in 1..Len(posted') :
              posted'[i].button = (IF unwrap(args) THEN "Right" ELSE "Left")]_vars

\* C12: an Escape key-down handled while is_visible is true stores
\* hide_requested = true and the callback returns None; an Escape key-down
\* handled while is_visible is false is returned to the system and leaves
\* hide_requested unchanged.
C12_EscapeHandling ==
    [][/\ (dpc = "escape" /\ dpc' = "wait" => hide_requested' /\ tap_result' = "None")
       /\ \A e \in TapEvents :
             e.type = "KeyDown" /\ e.key_code = ESCAPE_KEY_CODE /\ callback_closure(e, None)
             => IF is_visible
                THEN dpc' = "escape" /\ tap_result' = tap_result
                ELSE /\ dpc' = "wait"
                     /\ tap_result' = "Some(event)"
                     /\ hide_requested' = hide_requested]_vars

\* the callback has swallowed an Escape and the hide request is still set
C12_Witness ==
    /\ tap_result = "None"
    /\ hide_requested
    /\ dpc = "wait"

\* C13: every run of the callback other than an Escape key-down handled
\* while is_visible is true returns the event to the system.
C13_PassThrough ==
    [][\A e \in TapEvents, cursor \in {Some(mouse_pos), None} :
          /\ ~(is_visible /\ e.type = "KeyDown" /\ e.key_code = ESCAPE_KEY_CODE)
          /\ callback_closure(e, cursor)
          => tap_result' = "Some(event)" /\ dpc' = "wait"]_vars

\* the callback that sent a Show returned its event
C13_Witness ==
    /\ tap_result = "Some(event)"
    /\ event_chan # <<>>
    /\ dpc = "wait"

\* C14: with a hotkey press pending, the key-down of a key that is not a
\* modifier clears rcmd_press_time, whatever is_visible is.
C14_KeyDownCancelsTap ==
    [][\A e \in TapEvents :
          /\ e.type = "KeyDown"
          /\ ~is_modifier_key_code(e.key_code)
          /\ is_some(rcmd_press_time)
          /\ callback_closure(e, None)
          => is_none(rcmd_press_time')]_vars

\* one update call reaching the key handling with the given inputs, in the
\* concurrent specification
UIStep(events, outer_rect, move_ok) ==
    \E screen_size \in ScreenSizes :
        /\ UpdateUI(Relayout(AppFields, from_min_size(pos2(0, 0), screen_size)),
                    events, outer_rect, move_ok)
        /\ UNCHANGED args

\* some key of the tick is Space or the label of a sub-grid cell
SubGridHit(events) ==
    \E i \in 1..Len(events) :
        events[i] = "Space" \/ is_some(Position(sub_grid_labels, <<events[i]>>))

\* a hide is requested for a visible overlay with no target stored
HideWithoutTarget ==
    /\ npc \in {"recv", "hide"}
    /\ hide_requested
    /\ is_visible
    /\ is_none(pending_click_pos_after_hide)

\* C15: a selection in the visible sub-grid whose pointer move fails, or
\* for which no outer rectangle is known, leaves no target stored and sets
\* hide_requested; from there the next hide block hides the overlay without
\* starting the deferred-click wait; and events are posted only for a stored
\* target, at its point.
C15_MoveFailureCancels ==
    [][/\ (npc = "ui" /\ npc' = "recv" /\ is_visible /\ display_mode = "SubGrid"
             => \* either the step cancelled the click, or it is no step of a
                \* selection without rectangle or with a failed move (the move is
                \* attempted only when the rectangle is known)
                \/ /\ is_none(pending_click_pos_after_hide') /\ hide_requested'
                   /\ posted' = posted
                \/ \A events \in KeyEvents, outer_rect \in OuterRects, move_ok \in BOOLEAN :
                      ~(/\ is_none(outer_rect) <=> move_ok
                        /\ SubGridHit(events)
                        /\ UIStep(events, outer_rect, move_ok)))
       /\ (HideWithoutTarget
             => \/ HideWithoutTarget'
                \/ /\ npc = "hide" /\ npc' = "recv"
                   /\ ~is_visible' /\ ~is_hiding_to_perform_click'
                   /\ posted' = posted)
       /\ (posted' # posted /\ posted' # <<>>
             => /\ is_some(pending_click_pos_after_hide)
                /\ \A i \in 1..Len(posted') :
                      posted'[i].point = unwrap(pending_click_pos_after_hide))]_vars

\* a sub-grid selection has just ended without a stored target
C15_Witness ==
    /\ npc = "recv"
    /\ display_mode = "SubGrid"
    /\ HideWithoutTarget
    /\ ~is_hiding_to_perform_click

\* C16: once the installation of the event tap has failed, the application
\* does not go on: the render loop neither starts nor takes a further step
\* (main may only end with an error).
C16_FatalHookFailure ==
    [][dpc = "returned" => npc' = npc \/ npc' = "exit_err"]_vars

\* the 1200x1200 content rectangle and its main cell at row 0, column 0
ScenarioRect == from_min_size(pos2(0, 0), vec2(1200, 1200))
MainCell00 == from_min_size(pos2(0, 0), vec2(100, 100))
\* inner lies inside outer; p lies strictly inside rect
Contains(outer, inner) ==
    /\ outer.min[1] <= inner.min[1] /\ inner.max[1] <= outer.max[1]
    /\ outer.min[2] <= inner.min[2] /\ inner.max[2] <= outer.max[2]
StrictlyInside(p, rect) ==
    /\ rect.min[1] < p[1] /\ p[1] < rect.max[1]
    /\ rect.min[2] < p[2] /\ p[2] < rect.max[2]

\* C17: over a 1200x1200 window the label of the main cell at row 0, column 0
\* is the first row character followed by the first column character, "AH";
\* the tick that types it selects that cell and lays the sub-grid out inside
\* it, and a tick that then types the label of sub-cell j stores as the
\* click target the window origin plus the centre of sub-cell j, a point
\* inside that sub-cell, which lies inside main cell (0, 0).
C17_EndToEnd ==
    [][/\ (/\ is_visible /\ display_mode = "MainGrid" /\ key_input_buffer = <<>>
           /\ WindowTick(vec2(1200, 1200), <<"A", "H">>)
           => /\ VecAt(main_grid_labels', 0) = <<first_chars[1], second_chars[1]>>
              /\ VecAt(main_grid_labels', 0) = <<"A", "H">>
              /\ display_mode' = "SubGrid"
              /\ selected_main_cell_index' = Some(0)
              /\ VecAt(main_grid_rects', 0) = MainCell00
              /\ VecLen(sub_grid_rects') = SUB_GRID_COLS * SUB_GRID_ROWS
              /\ \A j \in 0..(VecLen(sub_grid_rects') - 1) :
                    Contains(MainCell00, VecAt(sub_grid_rects', j)))
       /\ (/\ is_visible /\ display_mode = "SubGrid" /\ selected_main_cell_index = Some(0)
           /\ last_layout_screen_rect = ScenarioRect /\ VecLen(main_grid_rects) # 0
           => \A k \in Letters :
                 LET j == Position(sub_grid_labels, <<k>>) IN
                 is_some(j) /\ WindowTick(vec2(1200, 1200), <<k>>)
                 => LET cell == VecAt(sub_grid_rects, unwrap(j)) IN
                    /\ pending_click_pos_after_hide'
                          = Some(add2(unwrap(SnapOuterRect).min, center(cell)))
                    /\ hide_requested'
                    /\ StrictlyInside(center(cell), cell)
                    /\ Contains(MainCell00, cell))]_vars
\* the last sub-cell of main cell (0, 0) is the stored target
C17_Witness ==
    /\ display_mode = "SubGrid" /\ selected_main_cell_index = Some(0) /\ hide_requested
    /\ last_layout_screen_rect = ScenarioRect
    /\ pending_click_pos_after_hide
          = Some(add2(unwrap(SnapOuterRect).min,
                      center(VecAt(generate_sub_grid_layout(MainCell00, SUB_GRID_COLS,
                                                            SUB_GRID_ROWS).rects, 24))))

\* C18: on a tick without keys in SubGridActive whose content rectangle
\* differs from the one of the last layout pass, the main grid is recomputed
\* for the new rectangle; if the retained selection index is within the new
\* list of main rectangles the mode stays SubGrid and the sub-grid is
\* recomputed over the new rectangle of that cell, otherwise the mode falls
\* back to MainGrid.
C18_ResizeInSubGrid ==
    [][\A screen_size \in WindowSizes :
          LET current_content_rect == from_min_size(pos2(0, 0), screen_size) IN
          /\ NavigatorState = "SubGridActive"
          /\ last_layout_screen_rect # current_content_rect
          /\ WindowTick(screen_size, <<>>)
          => /\ main_grid_rects' = generate_main_grid_layout(MAIN_GRID_COLS, MAIN_GRID_ROWS,
                                                             current_content_rect).rects
             /\ last_layout_screen_rect' = current_content_rect
             /\ selected_main_cell_index' = selected_main_cell_index
             /\ IF /\ is_some(selected_main_cell_index)
                   /\ unwrap(selected_main_cell_index) < VecLen(main_grid_rects')
                THEN LET cell == VecAt(main_grid_rects', unwrap(selected_main_cell_index)) IN
                     /\ display_mode' = "SubGrid"
                     /\ sub_grid_rects' = generate_sub_grid_layout(cell, SUB_GRID_COLS,
                                                                   SUB_GRID_ROWS).rects
                     /\ \A j \in 0..(VecLen(sub_grid_rects') - 1) :
                           Contains(cell, VecAt(sub_grid_rects', j))
                ELSE display_mode' = "MainGrid"]_vars
\* the window shrank to a degenerate size while a sub-grid was shown: no
\* main rectangles, the selection and the old sub-grid retained, the mode
\* back to MainGrid
C18_Witness ==
    /\ is_visible /\ npc = "recv" /\ display_mode = "MainGrid"
    /\ is_some(selected_main_cell_index) /\ VecLen(main_grid_rects) = 0
    /\ VecLen(sub_grid_rects) # 0
    /\ last_layout_screen_rect = from_min_size(pos2(0, 0), vec2(1, 1))

\* sum of the areas of the rectangles cells[from] .. cells[to], by halves
RECURSIVE AreaSum(_, _, _)
AreaSum(cells, from, to) ==
    IF from > to THEN 0
    ELSE IF from = to THEN width(cells[from]) * height(cells[from])
    ELSE LET mid == (from + to) \div 2 IN
         AreaSum(cells, from, mid) + AreaSum(cells, mid + 1, to)
\* two rectangles share no interior point
Disjoint(a, b) ==
    \/ a.max[1] <= b.min[1] \/ b.max[1] <= a.min[1]
    \/ a.max[2] <= b.min[2] \/ b.max[2] <= a.min[2]
\* the rectangles v tile rect as num_cols x num_rows equal cells in row-major
\* order
Tiles(v, rect, num_cols, num_rows) ==
    LET cells == ToSeq(v)
        n == num_cols * num_rows
    IN /\ Len(cells) = n
       /\ \A i \in 1..n :
             /\ width(cells[i]) = width(cells[1]) /\ height(cells[i]) = height(cells[1])
             /\ width(cells[i]) > 0 /\ height(cells[i]) > 0
             /\ Contains(rect, cells[i])
             \* row-major: cell i - 1 is in row (i - 1) \div num_cols and
             \* column (i - 1) % num_cols
             /\ cells[i].min = add2(rect.min,
                                    vec2(((i - 1) % num_cols) * width(cells[1]),
                                         ((i - 1) \div num_cols) * height(cells[1])))
             \* no gap: a cell ends where its right and lower neighbours
             \* begin, or at the border of the rectangle
             /\ cells[i].max[1] = IF i % num_cols = 0 THEN rect.max[1]
                                  ELSE cells[i + 1].min[1]
             /\ cells[i].max[2] = IF i + num_cols > n THEN rect.max[2]
                                  ELSE cells[i + num_cols].min[2]
             /\ \A j \in (i + 1)..n : Disjoint(cells[i], cells[j])
       /\ AreaSum(cells, 1, n) = width(rect) * height(rect)

\* C19: for a rectangle wider and higher than 1 whose width is a multiple of
\* the column count and whose height is a multiple of the row count, both
\* layout functions return num_cols * num_rows equally sized rectangles in
\* row-major order that lie inside the rectangle, do not overlap, leave no
\* gap, and whose areas add up to the area of the rectangle.
C19_GridTiling ==
    args # <<>>
    => (/\ width(args.rect) > 1 /\ height(args.rect) > 1
        /\ width(args.rect) % args.num_cols = 0
        /\ height(args.rect) % args.num_rows = 0
        => /\ (args.main_done
                 => Tiles(main_grid_rects, args.rect, args.num_cols, args.num_rows))
           /\ (args.sub_done
                 => Tiles(sub_grid_rects, args.rect, args.num_cols, args.num_rows)))
\* both functions laid a 12 x 5 grid over the 600 x 600 rectangle
C19_Witness ==
    /\ args = [num_cols |-> 12, num_rows |-> 5,
               rect |-> from_min_size(pos2(120, 60), vec2(600, 600)),
               main_done |-> TRUE, sub_done |-> TRUE]
    /\ VecLen(main_grid_rects) = 60 /\ VecLen(sub_grid_rects) = 60

\* C20: with more rows than first_chars has characters, or more columns than
\* second_chars has, generate_main_grid_layout does not return.
C20_CapacityFailFast ==
    (args # <<>> /\ (args.num_rows > Len(first_chars) \/ args.num_cols > Len(second_chars)))
        => ~args.main_done

\* the update call in progress took the ShowGrid branch and has not laid the
\* grid out yet: the branch empties main_grid_rects, and every layout pass of
\* the concurrent specification (one window size, not degenerate) fills them
ShownThisTick ==
    /\ npc \in {"hide", "click", "ui"}
    /\ is_visible
    /\ VecLen(main_grid_rects) = 0
\* the main grid of the window of the concurrent specification
CurrentMainGrid ==
    generate_main_grid_layout(MAIN_GRID_COLS, MAIN_GRID_ROWS,
        from_min_size(pos2(0, 0), CHOOSE screen_size \in ScreenSizes : TRUE))
\* the ShowGrid branch taken for a hidden overlay, in its two steps
ShowBranch ==
    /\ (npc = "recv" /\ npc' # "recv" /\ event_chan # <<>> /\ ~is_visible
          => is_visible' /\ npc' = "show")
    /\ (npc = "show" /\ npc' # "show"
          => /\ ~hide_requested' /\ key_input_buffer' = <<>>
             /\ selected_main_cell_index' = None /\ display_mode' = "MainGrid"
             /\ is_visible' /\ ShownThisTick')

\* C21 as stated: an update call that takes the ShowGrid branch for a hidden
\* overlay resets the selection as ShowBranch says and ends with the overlay
\* visible and the main grid recomputed for the current window size.
C21_ShowTransition ==
    [][/\ ShowBranch
       /\ (ShownThisTick /\ npc' = "recv"
             => is_visible' /\ main_grid_rects' = CurrentMainGrid.rects)]_vars
\* C21 amended: the call resets the selection as ShowBranch says; it ends
\* either in the hide block, which saw hide_requested set again by the
\* detector and hid the overlay without handling a key, or in the key
\* handling with the overlay visible, the main grid recomputed for the
\* current window size, and any selection made by the keys of the call
\* pointing into the recomputed grid.
C21_ShowAmended ==
    [][/\ ShowBranch
       /\ (ShownThisTick /\ npc' = "recv"
             => \/ /\ npc = "hide" /\ hide_requested /\ ~is_visible'
                   /\ key_input_buffer' = <<>> /\ selected_main_cell_index' = None
                \/ /\ npc = "ui" /\ is_visible'
                   /\ main_grid_rects' = CurrentMainGrid.rects
                   /\ last_layout_screen_rect' = CurrentMainGrid.rects.rect
                   /\ (is_some(selected_main_cell_index')
                         => /\ unwrap(selected_main_cell_index') < VecLen(main_grid_rects')
                            /\ sub_grid_rects' = generate_sub_grid_layout(
                                   VecAt(main_grid_rects', unwrap(selected_main_cell_index')),
                                   SUB_GRID_COLS, SUB_GRID_ROWS).rects))
       /\ (ShownThisTick => ShownThisTick' \/ npc' = "recv")]_vars
\* the overlay was shown and its grid laid out, and the call is over
C21_Witness ==
    /\ npc = "recv" /\ is_visible /\ ~hide_requested
    /\ display_mode = "MainGrid" /\ key_input_buffer = <<>>
    /\ main_grid_rects = CurrentMainGrid.rects

\* C22: the hide block of an update call that finds hide_requested set and
\* the overlay visible stores is_visible = false and hide_requested = false,
\* empties the buffer, clears the selection, sets the mode to MainGrid and
\* ends the call (no layout, no key handling, nothing posted); it starts the
\* deferred-click wait, with hide_initiated_at = now, exactly when a target
\* is stored, and otherwise leaves the Navigator Idle.
C22_HideTransition ==
    [][npc = "hide" /\ npc' # "hide" /\ hide_requested /\ is_visible
        => /\ ~is_visible' /\ ~hide_requested'
           /\ key_input_buffer' = <<>> /\ selected_main_cell_index' = None
           /\ display_mode' = "MainGrid"
           /\ npc' = "recv"
           /\ UNCHANGED <<main_grid_labels, main_grid_rects, sub_grid_labels, sub_grid_rects,
                          last_layout_screen_rect, pending_click_pos_after_hide, mouse_pos,
                          posted>>
           /\ (is_hiding_to_perform_click' <=> is_some(pending_click_pos_after_hide))
           /\ IF is_some(pending_click_pos_after_hide)
              THEN /\ hide_initiated_at' = Some(Instant_now)
                   /\ NavigatorState' = "PendingClick"
              ELSE NavigatorState' = "Idle"]_vars
\* the hide block has just started the deferred-click wait
C22_Witness ==
    /\ npc = "recv" /\ ~is_visible /\ ~hide_requested
    /\ is_hiding_to_perform_click /\ is_some(pending_click_pos_after_hide)
    /\ hide_initiated_at = Some(Instant_now)
    /\ key_input_buffer = <<>> /\ selected_main_cell_index = None /\ display_mode = "MainGrid"

\* the keys of the sub-grid loop that click in the app fields s: Space, and
\* the sub-grid labels whose cell exists
SubGridClickKey(s, key) ==
    key = "Space" \/ (/\ is_some(key_to_char(key))
                      /\ is_some(Position(s.sub_grid_labels, <<unwrap(key_to_char(key))>>))
                      /\ unwrap(Position(s.sub_grid_labels, <<unwrap(key_to_char(key))>>))
                            < VecLen(s.sub_grid_rects))
\* the window-relative point the key clicks in the app fields s
SubGridClickPoint(s, key) ==
    IF key = "Space" THEN center(VecAt(s.main_grid_rects, unwrap(s.selected)))
    ELSE center(VecAt(s.sub_grid_rects,
                      unwrap(Position(s.sub_grid_labels, <<unwrap(key_to_char(key))>>))))

\* C23: on a tick in SubGridActive with a valid selection, a known outer
\* rectangle and a pointer that moves, the first key of the tick that is
\* Space or a sub-grid label decides the click: the label of sub-cell j
\* targets the centre of sub-cell j, Space the centre of the selected main
\* cell; the pointer is moved there and hide_requested is set in that tick,
\* with the overlay still visible, the target is stored, and the keys after
\* it are ignored.
C23_SubGridSelection ==
    [][NavigatorState = "SubGridActive" /\ npc = "ui" /\ npc' = "recv"
        => \A screen_size \in WindowSizes :
             \A laid \in {Relayout(AppFields, from_min_size(pos2(0, 0), screen_size))} :
               /\ laid.display_mode = "SubGrid"
               /\ is_some(laid.selected) /\ unwrap(laid.selected) < VecLen(laid.main_grid_rects)
               => \A events \in WindowEvents("SubGrid") :
                    \A i \in 1..Len(events) :
                      /\ SubGridClickKey(laid, events[i])
                      /\ \A h \in 1..(i - 1) : ~SubGridClickKey(laid, events[h])
                      /\ UpdateUI(laid, events, SnapOuterRect, TRUE)
                      => LET target == add2(unwrap(SnapOuterRect).min,
                                            SubGridClickPoint(laid, events[i])) IN
                         /\ pending_click_pos_after_hide' = Some(target)
                         /\ mouse_pos' = target
                         /\ hide_requested' /\ is_visible'
                         /\ display_mode' = "SubGrid"
                         /\ selected_main_cell_index' = laid.selected
                         /\ posted' = posted]_vars
\* Space has scheduled a click at the centre of main cell 0 of the 1200x1200
\* window, and the overlay is still visible
C23_Witness ==
    /\ npc = "recv" /\ is_visible /\ hide_requested /\ display_mode = "SubGrid"
    /\ selected_main_cell_index = Some(0)
    /\ last_layout_screen_rect = ScenarioRect
    /\ pending_click_pos_after_hide = Some(add2(unwrap(SnapOuterRect).min, center(MainCell00)))
    /\ mouse_pos = add2(unwrap(SnapOuterRect).min, center(MainCell00))

\* C24: the step that synthesizes a click reads lshift_key_is_pressed once:
\* every event it posts, down and up alike, uses the right button when the
\* flag is true at that step and the left button when it is false; the step
\* posts at most one down and one up event, the down first, and does not
\* change the flag.
C24_ClickButton ==
    [][posted' # posted /\ posted' # <<>>
        => /\ SynthesizingTick
           /\ lshift_key_is_pressed' = lshift_key_is_pressed
           /\ Len(posted') <= 2
           /\ \A i \in 1..Len(posted') :
                 /\ posted'[i].button = (IF lshift_key_is_pressed THEN "Right" ELSE "Left")
                 /\ posted'[i].button = posted'[1].button
           /\ (Len(posted') = 2 => posted'[1].kind = "down" /\ posted'[2].kind = "up")]_vars
\* a right click was posted: down and up, both with the right button
C24_Witness ==
    /\ Len(posted) = 2
    /\ posted[1].kind = "down" /\ posted[1].button = "Right"
    /\ posted[2].kind = "up" /\ posted[2].button = "Right"

\* C25: a FlagsChanged event for the left-shift key leaves
\* lshift_key_is_pressed equal to the shift flag of the event, whether or not
\* the overlay is visible and whether or not a right-command press is
\* pending; no other step changes lshift_key_is_pressed.
C25_ShiftTracking ==
    [][/\ (dpc = "wait" /\ dpc' = "wait"
             => \A e \in TapEvents :
                   /\ e.type = "FlagsChanged" /\ e.key_code = LEFT_SHIFT_KEY_CODE
                   /\ callback_closure(e, None)
                   => lshift_key_is_pressed' = e.shift)
       /\ (lshift_key_is_pressed' # lshift_key_is_pressed
             => \E e \in TapEvents :
                   /\ e.type = "FlagsChanged" /\ e.key_code = LEFT_SHIFT_KEY_CODE
                   /\ e.shift = lshift_key_is_pressed'
                   /\ callback_closure(e, None))]_vars
\* left shift is held while the overlay is visible and a right-command press
\* is pending
C25_Witness ==
    lshift_key_is_pressed /\ is_visible /\ is_some(rcmd_press_time)

\* C26: the channel changes only by the try_recv that opens an update call,
\* which removes the oldest message and is the only removal of that call, or
\* by a send of the detector, which appends one ShowGrid behind the messages
\* already there; try_recv does not wait on an empty channel; and the send of
\* a qualifying right-command release goes through whatever the channel
\* holds (below the bound MaxChan of the model).
C26_ChannelDiscipline ==
    [][/\ (event_chan' # event_chan
             => \/ /\ npc = "recv" /\ npc' # "recv" /\ event_chan # <<>>
                   /\ event_chan' = Tail(event_chan)
                   /\ UNCHANGED detector
                \/ /\ npc' = npc /\ dpc = "wait"
                   /\ Len(event_chan') = Len(event_chan) + 1
                   /\ event_chan' = Append(event_chan, event_chan'[Len(event_chan')])
                   /\ event_chan'[Len(event_chan')].kind = "ShowGrid")
       /\ (npc = "recv" /\ npc' # "recv" /\ event_chan = <<>> => event_chan' = <<>>)
       /\ (npc = "recv" => ENABLED UpdateRecv)
       /\ (dpc = "wait" /\ Len(event_chan) < MaxChan
             => \A e \in TapEvents :
                   IsRcmdRelease(e) /\ RcmdReleaseSends => ENABLED callback_closure(e, None))]_vars
\* this update call received one message and another is still queued
C26_Witness ==
    npc = "show" /\ Len(event_chan) = 1

\* C27: in the labels generate_main_grid_layout returns for the configured
\* 12 x 12 grid, the label of the cell in row r and column c is the r-th
\* character of first_chars followed by the c-th character of second_chars.
C27_RowColumnLabels ==
    (args # <<>> /\ args.main_done
       /\ args.num_cols = MAIN_GRID_COLS /\ args.num_rows = MAIN_GRID_ROWS)
    => \A r \in 0..(MAIN_GRID_ROWS - 1), c \in 0..(MAIN_GRID_COLS - 1) :
          VecAt(main_grid_labels, r * MAIN_GRID_COLS + c)
             = <<first_chars[r + 1], second_chars[c + 1]>>

\* a rectangle for which the layout functions build no cells
Degenerate(rect) == width(rect) <= 1 \/ height(rect) <= 1
\* what the app holds after a layout over a degenerate rectangle: no main
\* cells but all 144 main labels; no sub-grid mode without main cells; and
\* for a selected main cell that is itself degenerate, no sub-grid cells but
\* all 25 sub-grid labels
DegenerateLayout ==
    /\ (Degenerate(last_layout_screen_rect)
          => /\ VecLen(main_grid_rects) = 0
             /\ main_grid_labels = generate_main_grid_layout(MAIN_GRID_COLS, MAIN_GRID_ROWS,
                                                             ScenarioRect).labels
             /\ VecLen(main_grid_labels) = MAIN_GRID_COLS * MAIN_GRID_ROWS)
    /\ (VecLen(main_grid_rects) = 0 => display_mode = "MainGrid")
    /\ (display_mode = "SubGrid"
          => /\ is_some(selected_main_cell_index)
             /\ unwrap(selected_main_cell_index) < VecLen(main_grid_rects)
             /\ (Degenerate(VecAt(main_grid_rects, unwrap(selected_main_cell_index)))
                   => /\ VecLen(sub_grid_rects) = 0
                      /\ VecLen(sub_grid_labels) = SUB_GRID_COLS * SUB_GRID_ROWS))

\* C28: a layout over a rectangle whose width or height is at most 1 leaves
\* no cells and the full list of labels, for the main grid and for the
\* sub-grid of a selected cell; while there are no main cells the mode is
\* never SubGrid, and a tick that lays out no main cells stores no click
\* target, requests no hide and does not move the pointer, whatever is typed.
C28_DegenerateLayout ==
    [][/\ DegenerateLayout'
       /\ (npc = "ui" /\ npc' = "recv" /\ VecLen(main_grid_rects') = 0
             => /\ pending_click_pos_after_hide' = pending_click_pos_after_hide
                /\ hide_requested' = hide_requested
                /\ mouse_pos' = mouse_pos)]_vars
\* the label of cell 0 was typed over the degenerate window: the index is
\* kept, the mode is MainGrid, and no sub-grid or click target exists
C28_Witness ==
    /\ is_visible /\ npc = "recv"
    /\ last_layout_screen_rect = from_min_size(pos2(0, 0), vec2(1, 1))
    /\ VecLen(main_grid_rects) = 0 /\ VecLen(sub_grid_rects) = 0
    /\ selected_main_cell_index = Some(0) /\ display_mode = "MainGrid"
    /\ is_none(pending_click_pos_after_hide) /\ ~hide_requested

\* what each call of the click block was: "ignore" and "restore" for
\* setIgnoresMouseEvents true and false, "down" and "up" for the posts
CallKinds(calls) ==
    [i \in 1..Len(calls) |->
        IF calls[i].kind = "setIgnoresMouseEvents"
        THEN (IF calls[i].value THEN "ignore" ELSE "restore")
        ELSE calls[i].kind]
\* the place of a call in the sequence ignore, down, up, restore
CallRank(kind) ==
    CASE kind = "ignore" -> 1 [] kind = "down" -> 2 [] kind = "up" -> 3 [] kind = "restore" -> 4
\* the click block is about to take a stored target
SynthesizesClick == SynthesizingTick /\ is_some(pending_click_pos_after_hide)

\* C29: in the tick that synthesizes a click the calls come in the order
\* ignore, down, up, restore, each at most once; the posts among them are
\* what the tick posted; the window is restored exactly when it was marked,
\* so no step leaves it ignoring mouse events, event-source failure
\* included; and the up event can be posted without the down event and the
\* down event without the up event.
C29_ClickSequence ==
    [][/\ ~ignores_mouse_events'
       /\ (SynthesizesClick /\ npc' = "ui"
             => \E k \in {CallKinds(click_calls')} :
                   /\ \A i, j \in DOMAIN k : i < j => CallRank(k[i]) < CallRank(k[j])
                   /\ SelectSeq(click_calls', LAMBDA c : c.kind \in {"down", "up"}) = posted'
                   /\ (\E i \in DOMAIN k : k[i] = "ignore") <=> (\E i \in DOMAIN k : k[i] = "restore"))
       /\ (SynthesizesClick
             => /\ ENABLED (Click /\ CallKinds(click_calls') = <<"ignore", "down", "up", "restore">>)
                /\ ENABLED (Click /\ CallKinds(click_calls') = <<"ignore", "up", "restore">>)
                /\ ENABLED (Click /\ CallKinds(click_calls') = <<"ignore", "down", "restore">>)
                /\ ENABLED (Click /\ CallKinds(click_calls') = <<"ignore", "restore">>
                                  /\ ~ignores_mouse_events'))]_vars
\* the down event could not be created: the window was marked, the up event
\* posted, and the window restored
C29_Witness ==
    /\ npc = "ui"
    /\ CallKinds(click_calls) = <<"ignore", "up", "restore">>
    /\ Len(posted) = 1 /\ posted[1].kind = "up"
    /\ ~ignores_mouse_events

\* a step that ends a call of update
TickEnds == npc # "recv" /\ npc' = "recv"

\* C30: a call of update that ends with the overlay hidden has requested a
\* repaint: one after at most 20 ms when a deferred click is waiting for its
\* timer, one after 50 ms when no click is waiting.
C30_RepaintScheduling ==
    [][TickEnds /\ ~is_visible'
        => /\ repaint_requests' # {}
           /\ (is_hiding_to_perform_click'
                 => \E delay \in repaint_requests' : delay <= CLICK_POLL_MS)
           /\ (~is_hiding_to_perform_click' => HIDDEN_POLL_MS \in repaint_requests')]_vars

\* a step of the render thread: every part of update moves npc
NavigatorStep == npc' # npc
\* a step of the callback of the tap
DetectorStep == npc' = npc /\ (dpc' # dpc \/ tap_result' # tap_result
                               \/ rcmd_press_time' # rcmd_press_time
                               \/ lshift_key_is_pressed' # lshift_key_is_pressed
                               \/ event_chan' # event_chan
                               \/ hide_requested' # hide_requested
                               \/ is_visible' # is_visible)

\* C31: a callback step never changes is_visible and never clears
\* hide_requested; it sets hide_requested only as the store of the Escape
\* branch, which a callback enters only when it loaded is_visible = true; a
\* step of update never changes lshift_key_is_pressed, and posts events,
\* whose button is the value it loads, only on the tick that synthesizes a
\* click.
C31_WriterDiscipline ==
    [][/\ (DetectorStep
            => /\ is_visible' = is_visible
               /\ (hide_requested => hide_requested')
               /\ (hide_requested' # hide_requested => dpc = "escape" /\ dpc' = "wait")
               /\ (dpc # "escape" /\ dpc' = "escape" => is_visible))
       /\ (NavigatorStep
            => /\ lshift_key_is_pressed' = lshift_key_is_pressed
               /\ (posted' # posted /\ posted' # <<>>
                    => /\ SynthesizesClick
                       /\ \A i \in 1..Len(posted') :
                             posted'[i].button
                                = (IF lshift_key_is_pressed THEN "Right" ELSE "Left")))]_vars
\* the callback stored hide_requested = true for an Escape it saw while the
\* overlay was visible, with left shift held, and update has not run since
C31_Witness ==
    /\ hide_requested /\ is_visible /\ tap_result = "None" /\ dpc = "wait"
    /\ lshift_key_is_pressed /\ npc = "recv" /\ display_mode = "MainGrid"

\* the callback has stored hide_requested for an Escape and no callback has
\* run since: tap_result is still the None the Escape branch returned
EscapeStored == tap_result = "None" /\ dpc = "wait"

\* C32: once the callback has stored hide_requested = true for an Escape it
\* saw while the overlay was visible, the overlay is eventually hidden,
\* unless another event reaches the callback first.
C32_EscapeAlwaysHides ==
    [](EscapeStored /\ hide_requested /\ is_visible
         => <>(~is_visible \/ ~EscapeStored))

\* C33: the channel never holds more than one ShowGrid that update has not
\* received yet.
C33_NoQueuedDuplicateShows ==
    Len(SelectSeq(event_chan, LAMBDA m : m.kind = "ShowGrid")) <= 1

\* C34: between two calls of update, whenever the mode is SubGrid the
\* selected index is present and below the number of main-grid rectangles,
\* and the sub-grid rectangles are the sub-grid layout of the rectangle of
\* that cell as it is laid out now.
C34_SubGridSelectionValid ==
    npc = "recv" /\ display_mode = "SubGrid"
    => /\ is_some(selected_main_cell_index)
       /\ unwrap(selected_main_cell_index) < VecLen(main_grid_rects)
       /\ sub_grid_rects
            = generate_sub_grid_layout(VecAt(main_grid_rects, unwrap(selected_main_cell_index)),
                                       SUB_GRID_COLS, SUB_GRID_ROWS).rects
\* the overlay was hidden for a click and shown again, a cell was selected,
\* and the window is 600x600 in sub-grid mode
C34_Witness ==
    /\ npc = "recv" /\ display_mode = "SubGrid" /\ is_visible
    /\ is_hiding_to_perform_click /\ is_some(pending_click_pos_after_hide) /\ ~hide_requested
    /\ last_layout_screen_rect = from_min_size(pos2(0, 0), vec2(600, 600))
    /\ selected_main_cell_index = Some(0)
    /\ VecLen(sub_grid_rects) = SUB_GRID_COLS * SUB_GRID_ROWS
    /\ width(VecAt(sub_grid_rects, 0)) = 10

\* C35: between two calls of update, whenever the mode is SubGrid the key
\* buffer of the main grid is empty.
C35_BufferEmptyInSubGrid ==
    npc = "recv" /\ display_mode = "SubGrid" => key_input_buffer = <<>>

\* C36: the last part of a call of update made while is_visible is false
\* changes neither the mode, the buffer, the selection nor the stored click
\* target, does not move the pointer and does not set hide_requested,
\* whatever keys the tick delivers.
C36_HiddenIgnoresKeys ==
    [][npc = "ui" /\ npc' = "recv" /\ ~is_visible
        => UNCHANGED <<display_mode, key_input_buffer, selected_main_cell_index,
                       pending_click_pos_after_hide, mouse_pos, hide_requested>>]_vars

\* C37: whenever a ShowGrid is in the channel, a state with is_visible
\* true follows; and the step of update that receives a ShowGrid ends with
\* is_visible true, because it shows the overlay or the overlay is shown
\* already.
C37_ShowEventuallyHonoured ==
    /\ [](event_chan # <<>> => <>is_visible)
    /\ [][Len(event_chan') < Len(event_chan) => is_visible' /\ npc = "recv"]_vars
\* update has just received the only ShowGrid in the channel and stored
\* is_visible = true; the rest of the Show branch is still to run
C37_Witness ==
    /\ npc = "show" /\ is_visible /\ event_chan = <<>>
    /\ display_mode = "MainGrid" /\ ~is_hiding_to_perform_click

\* C38: the tick that synthesizes a click posts at most one button-down and
\* at most one button-up and leaves no stored target and no waiting click;
\* and over the whole run neither the button-downs nor the button-ups posted
\* outnumber the schedulings.
C38_OneClickPerSelection ==
    [][/\ args'.downs <= args'.scheduled
       /\ args'.ups <= args'.scheduled
       /\ (SynthesizesClick /\ npc' = "ui"
            => /\ Len(SelectSeq(posted', LAMBDA ev : ev.kind = "down")) <= 1
               /\ Len(SelectSeq(posted', LAMBDA ev : ev.kind = "up")) <= 1
               /\ Len(posted') <= 2
               /\ is_none(pending_click_pos_after_hide')
               /\ ~is_hiding_to_perform_click')
       /\ (posted' # posted /\ posted' # <<>> => SynthesizesClick /\ posted = <<>>)]_vars
\* two clicks were scheduled and both were posted in full
C38_Witness ==
    /\ args.scheduled = 2 /\ args.downs = 2 /\ args.ups = 2
    /\ npc = "recv" /\ ~is_visible /\ is_none(pending_click_pos_after_hide)

\* C39: while a press of right command is recorded, the flag change of a
\* modifier other than right command and left shift clears the record, and
\* a release of right command that finds no record sends nothing; the flag
\* change of left shift leaves the record and the channel as they are, and a
\* release that finds a record younger than RCMD_TAP_DURATION_MS with the
\* overlay hidden sends one ShowGrid, whether left shift is held or not.
C39_ModifierInterruptions ==
    [][\A e \in {t \in ModifierEvents : t.type = "FlagsChanged"} :
         \A cursor \in CursorResults \cup {None} :
            callback_closure(e, cursor)
            => /\ (is_some(rcmd_press_time)
                     /\ e.key_code \notin {RIGHT_COMMAND_KEY_CODE, LEFT_SHIFT_KEY_CODE}
                    => is_none(rcmd_press_time') /\ event_chan' = event_chan)
               /\ (e.key_code = LEFT_SHIFT_KEY_CODE
                    => rcmd_press_time' = rcmd_press_time /\ event_chan' = event_chan)
               /\ (IsRcmdRelease(e) /\ is_none(rcmd_press_time) => event_chan' = event_chan)
               /\ (IsRcmdRelease(e) /\ is_some(rcmd_press_time)
                     /\ elapsed(unwrap(rcmd_press_time)) < RCMD_TAP_DURATION_MS /\ ~is_visible
                    => Len(event_chan') = Len(event_chan) + 1)]_vars
\* a press of right command is recorded, 50 ms old, left shift is held and
\* the overlay is hidden: the release now sends a ShowGrid
C39_Witness ==
    /\ rcmd_press_time = Some(TimeStep) /\ lshift_key_is_pressed
    /\ ~is_visible /\ event_chan = <<>> /\ npc = "recv" /\ dpc = "wait"

====
